---- MODULE Spec2Model ----
(***************************************************************************)
(* Process supervision subsystem of spin: the process Manager              *)
(* (internal/process/manager.go) on top of the JSON process Store          *)
(* (internal/process/store.go), the tmux session backend and the OS        *)
(* process table.                                                          *)
(*                                                                         *)
(* One CLI invocation is one Manager with an in-memory `processes` map;    *)
(* the store file, the tmux sessions and the OS processes outlive it.      *)
(* Every Manager method is one action; the environment (time, processes    *)
(* dying, pids being reused, the CLI being run again) has  *)
(* its own actions.                                                        *)
(***************************************************************************)
EXTENDS Integers, Sequences, FiniteSets, TLC

\* ---------------------------------------------------------------- bounds
MaxPid == 2
MaxClock == 2
MaxStartPeriod == 2
MaxLatency == 2
MaxUsage == 3
MaxCPUs == 2

Names == {"web"}
PIDs == 1..MaxPid

\* ------------------------------------------------------------- constants
StatusStopped == "stopped"
StatusRunning == "running"
StatusStarting == "starting"
StatusError == "error"

ProcessTypeLocal == ""
ProcessTypeDocker == "docker"

\* Error kinds returned by the Manager's methods ("ok" is a nil error).
ErrAlreadyRunning == "AlreadyRunning"
ErrNotFound == "NotFound"
ErrNotRunning == "NotRunning"
ErrNoSession == "NoSession"
ErrSetup == "SetupFailed"
ErrCreate == "CreateSessionFailed"
ErrSend == "SendFailed"
ErrPipe == "PipeFailed"
ErrPanePid == "PanePidFailed"

\* ------------------------------------------------------------ data types
\* ProcessInfo: one record of the store file (has = FALSE: no entry).
NoRec == [has |-> FALSE, pid |-> 0, status |-> "", workDir |-> "",
          lastUpdated |-> 0, kind |-> ""]

ProcessInfo(pid, status, workDir, lastUpdated, kind) ==
    [has |-> TRUE, pid |-> pid, status |-> status, workDir |-> workDir,
     lastUpdated |-> lastUpdated, kind |-> kind]

\* Process: one in-memory handle (has = FALSE: no map entry).  pid is
\* Command.Process.Pid (0 when Command is nil), tmux is TmuxSession != "".
NoProc == [has |-> FALSE, pid |-> 0, status |-> "", tmux |-> FALSE,
           lastUpdated |-> 0, kind |-> ""]

Process(pid, status, tmux, lastUpdated, kind) ==
    [has |-> TRUE, pid |-> pid, status |-> status, tmux |-> tmux,
     lastUpdated |-> lastUpdated, kind |-> kind]

NewDockerProcess(t) == Process(0, StatusRunning, FALSE, t, ProcessTypeDocker)

VARIABLES
    store,       \* ~/.spin/processes.json : name -> ProcessInfo
    processes,   \* Manager.processes      : name -> Process
    sessions,    \* tmux session spin-<name>: its pane pid, 0 = no session
    cmd,         \* the command typed into the pane: "none", "running", "exited"
    alive,       \* pids of the live OS processes
    lastOp,      \* the last Manager method called ("env": liveness changed since)
    lastName,    \* its name argument
    lastErr,     \* the error it returned
    lastStatus,  \* the status GetProcessStatus returned
    lastList,    \* the entries ListProcesses returned
    acted,       \* TRUE in the state a Manager method has just returned in
    ioFault,     \* a store write failed during the last method
    lastPruned,  \* the names Store.ListProcesses deleted during the last ListProcesses
    startHist,   \* per name: start calls of this invocation since the last stop
    files,       \* the store file and its temporary file, as token sequences
    wpc,         \* where a running Store.saveProcesses is
    wdata,       \* the marshalled table it is writing
    prevTbl,     \* the table the store file held when it began
    thr,         \* per goroutine: the Manager method it runs and where it is
    mu,          \* Manager.mu: "free" or the goroutine holding it exclusively
    inv,         \* per CLI invocation: where its StartProcess is and what it returned
    server,      \* the sessions of the tmux server: records of name and pane pid
    sop,         \* the last call of a Store method: its arguments, faults and result
    runtime,     \* the Docker daemon and the host: containers, volumes, images, ports
    svc,         \* the last call of a ServiceManager method and what it did
    hw,          \* a running ServiceManager.waitForHealthy: where it is, and the time
    usage,       \* the last container stats sample and the CPU percent computed from it
    logs,        \* per name: the log file ~/.spin/output/<name>.log
    lk,          \* lock state of the manager's and the store's mutex, per goroutine
    keys,        \* the keys the last start sent to the session
    up,          \* the up command: its main goroutine, the signal handler, the started processes
    rw,          \* the store methods the goroutines of one process are in
    stopped,     \* the names whose stop has returned nil with no start since, in this invocation
    view         \* the log view of the dashboard and its tailing goroutines

mgrVars == <<store, processes, sessions, cmd, alive, lastOp, lastName, lastErr,
             lastStatus, lastList, acted, ioFault, lastPruned, startHist>>

saveVars == <<files, wpc, wdata, prevTbl>>

concVars == <<thr, mu>>

raceVars == <<inv, server>>

svcVars == <<runtime, svc>>

vars == <<mgrVars, saveVars, concVars, raceVars, sop, svcVars, hw, usage, logs, lk, keys, up, rw, stopped, view>>

\* What the steps of each part of the model leave alone.
mgrRest == <<saveVars, concVars, raceVars, sop, svcVars, hw, usage, logs, lk, keys, up, rw, stopped, view>>
saveRest == <<mgrVars, concVars, raceVars, sop, svcVars, hw, usage, logs, lk, keys, up, rw, stopped, view>>
concRest == <<saveVars, raceVars, sop, svcVars, hw, usage, logs, lk, keys, up, rw, view>>
raceRest == <<saveVars, concVars, sop, svcVars, hw, usage, logs, lk, keys, up, rw, stopped, view>>
storeRest == <<wpc, wdata, prevTbl, mgrVars, concVars, raceVars, svcVars, hw, usage, logs, lk, keys, up, rw, stopped, view>>
svcRest == <<mgrVars, saveVars, concVars, raceVars, sop, hw, usage, logs, lk, keys, up, rw, stopped, view>>
healthRest == <<mgrVars, saveVars, concVars, raceVars, sop, svcVars, usage, logs, lk, keys, up, rw, stopped, view>>
usageRest == <<mgrVars, saveVars, concVars, raceVars, sop, svcVars, hw, logs, lk, keys, up, rw, stopped, view>>
logRest == <<saveVars, concVars, raceVars, sop, svcVars, hw, usage, lk, keys, up, rw, stopped, view>>
lockRest == <<mgrVars, saveVars, concVars, raceVars, sop, svcVars, hw, usage, logs, keys, up, rw, stopped, view>>
keysRest == <<mgrVars, saveVars, concVars, raceVars, sop, svcVars, hw, usage, logs, lk, up, rw, stopped, view>>
upRest == <<mgrVars, saveVars, concVars, raceVars, sop, svcVars, hw, usage, logs, lk, keys, rw, stopped, view>>
rwRest == <<mgrVars, saveVars, concVars, raceVars, sop, svcVars, hw, usage, logs, lk, keys, up, stopped, view>>
viewRest == <<mgrVars, saveVars, concVars, raceVars, sop, svcVars, hw, usage, logs, lk, keys, up, stopped, rw>>

NoList == [n \in Names |-> NoProc]

\* ------------------------------------------------------------- the store
\* proc.Signal(syscall.Signal(0)) on os.FindProcess(pid): nil iff the pid
\* exists; a Process with Pid 0 is "not initialized" and always errors.
Probe(pid, al) == pid > 0 /\ pid \in al

\* Store.SaveProcess: load, upsert, saveProcesses (ok = the write succeeded).
SaveProcess(st, n, info, ok) == IF ok THEN [st EXCEPT ![n] = info] ELSE st

RemoveProcessNoDelete(st, n, ok) == st

\* Store.RemoveProcess: load, delete, saveProcesses.
RemoveProcess(st, n, ok) == IF ok THEN [st EXCEPT ![n] = NoRec] ELSE st

\* Store.GetProcess
GetProcess(st, n) == st[n]

\* Store.ListProcesses: the names it returns ...
StoreListResult(st, al) == {n \in Names : st[n].has /\ st[n].pid > 0 /\ Probe(st[n].pid, al)}

StoreListPrunedKeepAll(st, al) == st

\* ... and the table it saves: entries with pid > 0 and a failed probe deleted.
StoreListPruned(st, al) ==
    [n \in DOMAIN st |-> IF st[n].has /\ st[n].pid > 0 /\ ~Probe(st[n].pid, al)
                     THEN NoRec ELSE st[n]]

StoreListProcesses(st, al, ok) == IF ok THEN StoreListPruned(st, al) ELSE st

\* ------------------------------------------------------- the Manager
\* Manager.findProcess for one name: the error, the handle, and the entries
\* of the store and of the cache for that name afterwards.  rmOk: the
\* RemoveProcess of a dead record succeeded (its error is dropped).
\* A findProcess that leaves the record of a dead process in the store.
EvictDeadKeep(rec, rmOk) == rec

\* m.store.RemoveProcess(name) at line 172, its error dropped.
EvictDead(rec, rmOk) == IF rmOk THEN NoRec ELSE rec

\* A handle made from the pid of the record instead of the pane's.
NewHandleStoredPid(rec, pane) ==
    Process(rec.pid, rec.status, TRUE, rec.lastUpdated, ProcessTypeLocal)

\* lines 209-219: the handle of a reconciled name, with the pane's pid, the
\* session spin-<name> and the status and sample of the record.
NewHandle(rec, pane) ==
    Process(pane, rec.status, TRUE, rec.lastUpdated, ProcessTypeLocal)

findProcess(n, proc, rec, pane, al, rmOk) ==
    IF proc.has
    THEN [err |-> "ok", proc |-> proc, rec |-> rec, fault |-> FALSE]
    ELSE IF ~rec.has
    THEN [err |-> ErrNotFound, proc |-> NoProc, rec |-> rec, fault |-> FALSE]
    ELSE IF ~Probe(rec.pid, al)
    THEN [err |-> ErrNotRunning, proc |-> NoProc,
          rec |-> EvictDead(rec, rmOk), fault |-> ~rmOk]
    ELSE IF pane = 0
    THEN [err |-> ErrNoSession, proc |-> NoProc, rec |-> rec, fault |-> FALSE]
    ELSE [err |-> "ok", proc |-> NewHandle(rec, pane), rec |-> rec, fault |-> FALSE]


\* Outcomes of one resource-usage sampling pass (inputs of ListProcesses):
\* "ok", "fail" (the sampler or the runtime returned an error before anything
\* was updated), "statusonly" (the container was inspected but its stats did
\* not decode), "savefail" (the sample was taken, the store write failed).
SampleOutcomes == {"ok", "fail", "statusonly", "savefail"}

\* Container states ContainerInspect can report.
ContainerStates == {"running", "dead", "exited"}

\* Manager.updateDockerResourceUsage: the status derived from the container state.
DockerStatus(cstate) ==
    IF cstate = "running" THEN StatusRunning
    ELSE IF cstate = "dead" THEN StatusError
    ELSE StatusStopped

\* Manager.updateDockerResourceUsage
updateDockerResourceUsage(p, outcome, cstate, t) ==
    IF outcome = "fail"
    THEN [proc |-> p, save |-> FALSE, rec |-> NoRec, fault |-> FALSE]
    ELSE IF outcome = "statusonly"
    THEN [proc |-> [p EXCEPT !.status = DockerStatus(cstate)],
          save |-> FALSE, rec |-> NoRec, fault |-> FALSE]
    ELSE [proc |-> [p EXCEPT !.status = DockerStatus(cstate), !.lastUpdated = t],
          save |-> outcome = "ok",
          rec |-> ProcessInfo(0, DockerStatus(cstate), "", t, ProcessTypeDocker),
          fault |-> outcome = "savefail"]

\* Manager.updateResourceUsage: psutil.NewProcess fails for a pid that does
\* not exist; on success LastUpdated is set and the record is saved with
\* Pid = Command.Process.Pid and an empty WorkDir.
updateResourceUsage(p, outcome, cstate, t, al) ==
    IF p.kind = ProcessTypeDocker
    THEN updateDockerResourceUsage(p, outcome, cstate, t)
    ELSE IF p.pid = 0 \/ p.pid \notin al \/ outcome \in {"fail", "statusonly"}
    THEN [proc |-> p, save |-> FALSE, rec |-> NoRec, fault |-> FALSE]
    ELSE [proc |-> [p EXCEPT !.lastUpdated = t],
          save |-> outcome = "ok",
          rec |-> ProcessInfo(p.pid, p.status, "", t, p.kind),
          fault |-> outcome = "savefail"]

\* time.Now(): the clock is monotonic, a reading is not older than any
\* time stamp the store, the cache or the last listing holds.
Now ==
    {t \in 1..MaxClock :
        \A n \in Names : /\ t >= store[n].lastUpdated
                          /\ t >= processes[n].lastUpdated
                          /\ t >= lastList[n].lastUpdated}

\* The pids the store or the cache refer to.
KnownPids ==
    {store[n].pid : n \in Names} \cup {processes[n].pid : n \in Names}

\* The pids fork can hand out to a new process, none of excl: a free pid the
\* store or the cache still refers to (pids are reused), or a free pid
\* nothing refers to; the latter are interchangeable, the lowest stands for
\* them.
NewPids(excl) ==
    LET free == PIDs \ (alive \cup excl)
        unref == free \ KnownPids
    IN  (free \cap KnownPids)
        \cup {q \in unref : \A r \in unref : q <= r}

\* The working directory start is called with.
WorkDir == "/tmp"

\* What every Manager method records about its return.
Ret(op, n, err, fault) ==
    /\ lastOp' = op
    /\ lastName' = n
    /\ lastErr' = err
    /\ ioFault' = fault
    /\ acted' = TRUE

\* startHist: "none" (no start since the last stop), "nohandle" (start was
\* called and left no handle), "handle" (start was called and a handle is
\* registered), "repeat" (start was called again after that).
StartHistAfter(n, proc) ==
    [startHist EXCEPT ![n] = IF @ \in {"handle", "repeat"} THEN "repeat"
                             ELSE IF proc.has THEN "handle" ELSE "nohandle"]

\* Manager.StartProcess(name, command, args, env, workDir).
\* failAt: the step the environment makes fail; p: the pid of the shell tmux
\* starts in the pane; c: the pid of the `tmux new-session` client, which has
\* exited when Run returns and is what Command.Process.Pid holds; saveOk: the
\* store write succeeds.  W (here and below): the outcomes a write of the
\* store file can have, TRUE = written, FALSE = os.WriteFile or os.Rename failed.
StartProcessGuardNone(n) == FALSE

\* the duplicate-name guard: `if _, exists := m.processes[name]; exists`
StartProcessGuard(n) == processes[n].has

StartProcess(n, W) ==
    \E failAt \in {"none", "setup", "create", "send", "pipe", "panepid"}
                   \cup (IF FALSE \in W THEN {"save"} ELSE {}) :
    LET saveOk == failAt # "save" IN
    /\ lastStatus' = ""
    /\ lastList' = NoList
    /\ lastPruned' = {}
    /\ IF StartProcessGuard(n)
       THEN /\ Ret("start", n, ErrAlreadyRunning, FALSE)
            /\ startHist' = StartHistAfter(n, processes[n])
            /\ UNCHANGED <<store, processes, sessions, cmd, alive>>
       ELSE IF failAt = "setup"
       THEN /\ Ret("start", n, ErrSetup, FALSE)
            /\ startHist' = StartHistAfter(n, NoProc)
            /\ UNCHANGED <<store, processes, sessions, cmd, alive>>
       ELSE IF sessions[n] # 0 \/ failAt = "create"
       THEN /\ Ret("start", n, ErrCreate, FALSE)
            /\ startHist' = StartHistAfter(n, NoProc)
            /\ UNCHANGED <<store, processes, sessions, cmd, alive>>
       ELSE \E p \in NewPids({}) :
            /\ sessions' = [sessions EXCEPT ![n] = p]
            /\ alive' = alive \cup {p}
            /\ cmd' = [cmd EXCEPT ![n] = IF failAt = "send" THEN "none" ELSE "running"]
            /\ IF failAt \in {"send", "pipe"}
               THEN /\ Ret("start", n, IF failAt = "send" THEN ErrSend ELSE ErrPipe, FALSE)
                    /\ startHist' = StartHistAfter(n, NoProc)
                    /\ UNCHANGED <<store, processes>>
               ELSE \E c \in NewPids({p}), now \in Now :
                    /\ processes' = [processes EXCEPT ![n] =
                            Process(c, StatusRunning, TRUE, now, ProcessTypeLocal)]
                    /\ startHist' = StartHistAfter(n, processes'[n])
                    /\ IF failAt = "panepid"
                       THEN /\ Ret("start", n, ErrPanePid, FALSE)
                            /\ UNCHANGED store
                       ELSE /\ store' = SaveProcess(store, n,
                                   ProcessInfo(p, StatusRunning, WorkDir, 0, ProcessTypeLocal),
                                   saveOk)
                            /\ Ret("start", n, "ok", ~saveOk)

\* Manager.StartDockerProcess(name, containerID, image): the tracker callback.
StartDockerProcess(n, W) ==
    \E setupOk \in BOOLEAN, saveOk \in W, now \in Now :
    /\ lastStatus' = ""
    /\ lastList' = NoList
    /\ lastPruned' = {}
    /\ UNCHANGED <<sessions, cmd, alive>>
    /\ IF processes[n].has
       THEN /\ Ret("startDocker", n, ErrAlreadyRunning, FALSE)
            /\ startHist' = StartHistAfter(n, processes[n])
            /\ UNCHANGED <<store, processes>>
       ELSE IF ~setupOk
       THEN /\ Ret("startDocker", n, ErrSetup, FALSE)
            /\ startHist' = StartHistAfter(n, NoProc)
            /\ UNCHANGED <<store, processes>>
       ELSE /\ processes' = [processes EXCEPT ![n] = NewDockerProcess(now)]
            /\ startHist' = StartHistAfter(n, processes'[n])
            /\ store' = SaveProcess(store, n,
                   ProcessInfo(0, StatusRunning, "", now, ProcessTypeDocker), saveOk)
            /\ Ret("startDocker", n, "ok", ~saveOk)

\* Manager.StopProcess(name).  killOk: `tmux kill-session` succeeds when the
\* session exists; rmOk: the store write of RemoveProcess succeeds.
StopProcess(n, W) ==
    \E killOk \in BOOLEAN, rmOk \in W :
    LET f == findProcess(n, processes[n], GetProcess(store, n), sessions[n], alive, rmOk)
        killed == f.proc.tmux /\ sessions[n] # 0 /\ killOk
    IN  /\ lastStatus' = ""
        /\ lastList' = NoList
        /\ lastPruned' = {}
        /\ startHist' = [startHist EXCEPT ![n] = "none"]
        /\ IF f.err # "ok"
           THEN /\ store' = [store EXCEPT ![n] = f.rec]
                /\ Ret("stop", n, f.err, f.fault)
                /\ UNCHANGED <<processes, sessions, cmd, alive>>
           ELSE /\ sessions' = IF killed THEN [sessions EXCEPT ![n] = 0] ELSE sessions
                /\ alive' = IF killed THEN alive \ {sessions[n]} ELSE alive
                /\ cmd' = IF killed THEN [cmd EXCEPT ![n] = "none"] ELSE cmd
                /\ store' = RemoveProcess(store, n, rmOk)
                /\ processes' = [processes EXCEPT ![n] = NoProc]
                /\ Ret("stop", n, "ok", ~rmOk)

\* Manager.GetProcessStatus(name)
GetProcessStatus(n, W) ==
    \E rmOk \in W :
    LET f == findProcess(n, processes[n], GetProcess(store, n), sessions[n], alive, rmOk)
    IN  /\ store' = [store EXCEPT ![n] = f.rec]
        /\ processes' = [processes EXCEPT ![n] = IF f.err = "ok" THEN f.proc ELSE @]
        /\ lastStatus' = IF f.err = "ok" THEN f.proc.status ELSE ""
        /\ lastList' = NoList
        /\ lastPruned' = {}
        /\ Ret("status", n, f.err, f.fault)
        /\ UNCHANGED <<sessions, cmd, alive, startHist>>

\* Manager.ListProcesses(): for one name of the store's result, the
\* reconciled and sampled handle.
ListOne(n, st1, outcome, cstate, now) ==
    LET f == findProcess(n, processes[n], GetProcess(st1, n), sessions[n], alive, TRUE)
        u == updateResourceUsage(f.proc, outcome, cstate, now, alive)
    IN  IF f.err # "ok"
        THEN [listed |-> FALSE, proc |-> processes[n], rec |-> f.rec, fault |-> f.fault]
        ELSE [listed |-> TRUE, proc |-> u.proc,
              rec |-> IF u.save THEN u.rec ELSE f.rec, fault |-> u.fault]

\* The handle ListProcesses samples for a name: the one findProcess returns
\* for a name of the store's result, if it reaches the sampler (a container,
\* or a pid psutil.NewProcess finds).
Sampled(n) ==
    LET f == findProcess(n, processes[n], GetProcess(store, n), sessions[n], alive, TRUE)
    IN  IF /\ n \in StoreListResult(store, alive)
           /\ f.err = "ok"
           /\ (f.proc.kind = ProcessTypeDocker \/ Probe(f.proc.pid, alive))
        THEN f.proc ELSE NoProc

\* The inputs of a ListProcesses call the code reads in this state; an input
\* it does not read is fixed to one value.
ListInputs(pruneOk, smp, cstate, now) ==
    /\ StoreListPruned(store, alive) = store => pruneOk
    /\ \A n \in Names :
          /\ ~Sampled(n).has => smp[n] = "ok"
          /\ Sampled(n).kind # ProcessTypeDocker => smp[n] # "statusonly"
    /\ (\A n \in Names : Sampled(n).kind # ProcessTypeDocker \/ smp[n] = "fail")
          => cstate = "running"
    /\ (\A n \in Names : ~Sampled(n).has \/ smp[n] \in {"fail", "statusonly"})
          => now = MaxClock

ListProcesses(W) ==
    \E pruneOk \in W,
       smp \in [Names -> IF FALSE \in W THEN SampleOutcomes ELSE SampleOutcomes \ {"savefail"}],
       cstate \in ContainerStates,
       now \in Now :
    /\ ListInputs(pruneOk, smp, cstate, now)
    /\ LET res == StoreListResult(store, alive)
           st1 == StoreListProcesses(store, alive, pruneOk)
           one == [n \in Names |-> ListOne(n, st1, smp[n], cstate, now)]
       IN  /\ store' = [n \in Names |-> IF n \in res THEN one[n].rec ELSE st1[n]]
           /\ processes' = [n \in Names |-> IF n \in res THEN one[n].proc ELSE processes[n]]
           /\ lastList' = [n \in Names |-> IF n \in res /\ one[n].listed
                                           THEN one[n].proc ELSE NoProc]
           /\ lastStatus' = ""
           /\ lastPruned' = {n \in Names : store[n].has /\ ~StoreListPruned(store, alive)[n].has}
           /\ Ret("list", "", "ok",
                  (~pruneOk /\ st1 # StoreListPruned(store, alive))
                  \/ \E n \in res : one[n].fault)
           /\ UNCHANGED <<sessions, cmd, alive, startHist>>

\* ------------------------------------------------------ the environment
EnvReset ==
    /\ lastOp' = "env"
    /\ lastName' = ""
    /\ lastErr' = ""
    /\ lastStatus' = ""
    /\ lastList' = NoList
    /\ lastPruned' = {}
    /\ ioFault' = FALSE
    /\ acted' = FALSE

\* A step of the environment that leaves the liveness of every process as it
\* was: what the last ListProcesses returned stays on record.
EnvQuiet ==
    IF lastOp = "list"
    THEN /\ acted' = FALSE
         /\ UNCHANGED <<lastOp, lastName, lastErr, lastStatus, lastList, lastPruned, ioFault>>
    ELSE EnvReset

\* an OS process exits or is killed; the session whose pane it ran in ends
Die(p) ==
    /\ p \in alive
    /\ alive' = alive \ {p}
    /\ sessions' = [n \in Names |-> IF sessions[n] = p THEN 0 ELSE sessions[n]]
    /\ cmd' = [n \in Names |-> IF sessions[n] = p THEN "none" ELSE cmd[n]]
    /\ EnvReset
    /\ UNCHANGED <<store, processes, startHist>>

\* An unrelated process is started and gets a free pid the store or the
\* cache still refers to (pids are reused); processes with other pids are
\* not tracked.
Spawn(p) ==
    /\ p \notin alive
    /\ p \in KnownPids
    /\ alive' = alive \cup {p}
    /\ EnvReset
    /\ UNCHANGED <<store, processes, sessions, cmd, startHist>>

\* The command typed into the pane of a session exits; the shell
\* `tmux new-session` started in the pane, and with it the session, stays.
CommandExit(n) ==
    /\ cmd[n] = "running"
    /\ cmd' = [cmd EXCEPT ![n] = "exited"]
    /\ EnvReset
    /\ UNCHANGED <<store, processes, sessions, alive, startHist>>

\* the CLI exits and is run again: GetManager builds an empty Manager
NewInvocation ==
    /\ processes' = [n \in Names |-> NoProc]
    /\ startHist' = [n \in Names |-> "none"]
    /\ EnvQuiet
    /\ UNCHANGED <<store, sessions, cmd, alive>>

\* ------------------------------------------ Store.saveProcesses, in steps
\* The names of the tables written in the step-wise model of a store write.
FileNames == {"db", "web"}

\* json.MarshalIndent writes the keys of a map in sorted order.
KeyOrder == <<"db", "web">>

NoTable == [n \in FileNames |-> NoRec]

\* A file is a sequence of tokens: "{", one token per entry, "}".
OpenTok == [t |-> "open", name |-> "", rec |-> NoRec]
CloseTok == [t |-> "close", name |-> "", rec |-> NoRec]
EntryTok(n, r) == [t |-> "entry", name |-> n, rec |-> r]

RECURSIVE MarshalFrom(_, _)
MarshalFrom(tbl, i) ==
    IF i > Len(KeyOrder) THEN <<>>
    ELSE (IF tbl[KeyOrder[i]].has THEN <<EntryTok(KeyOrder[i], tbl[KeyOrder[i]])>> ELSE <<>>)
         \o MarshalFrom(tbl, i + 1)

\* json.MarshalIndent(processes, "", "  ")
Marshal(tbl) == <<OpenTok>> \o MarshalFrom(tbl, 1) \o <<CloseTok>>

\* json.Unmarshal succeeds on a complete object only.
ValidJSON(f) ==
    /\ Len(f) >= 2
    /\ f[1].t = "open"
    /\ f[Len(f)].t = "close"
    /\ \A i \in 2..(Len(f) - 1) : f[i].t = "entry"

\* json.Unmarshal(data, &processes)
Unmarshal(f) ==
    [n \in FileNames |->
        IF \E i \in 1..Len(f) : f[i].t = "entry" /\ f[i].name = n
        THEN f[CHOOSE i \in 1..Len(f) : f[i].t = "entry" /\ f[i].name = n].rec
        ELSE NoRec]

\* s.path
path == "processes.json"

tmpPathInPlace == path

\* tmpPath := s.path + ".tmp"
tmpPath == "processes.json.tmp"

\* A file that does not exist.
NoFile == [exists |-> FALSE, data |-> <<>>]
File(d) == [exists |-> TRUE, data |-> d]

\* A store operation computes the new table and calls saveProcesses:
\* the table is marshalled and os.WriteFile opens tmpPath with O_TRUNC.
SaveBegin ==
    /\ wpc = "idle"
    /\ ValidJSON(files[path].data)
    /\ \E n \in FileNames, r \in {NoRec} \cup
                 {ProcessInfo(q, StatusRunning, WorkDir, 0, ProcessTypeLocal) : q \in PIDs} :
         LET old == Unmarshal(files[path].data)
             new == [old EXCEPT ![n] = r]
         IN  /\ prevTbl' = old
             /\ wdata' = Marshal(new)
    /\ files' = [files EXCEPT ![tmpPath] = File(<<>>)]
    /\ wpc' = "writing"
    /\ UNCHANGED saveRest

\* os.WriteFile writes the data; the write is not atomic.
WriteChunk ==
    /\ wpc = "writing"
    /\ Len(files[tmpPath].data) < Len(wdata)
    /\ files' = [files EXCEPT ![tmpPath] =
                    File(Append(@.data, wdata[Len(@.data) + 1]))]
    /\ wpc' = IF Len(files'[tmpPath].data) = Len(wdata) THEN "written" ELSE "writing"
    /\ UNCHANGED <<wdata, prevTbl, saveRest>>

\* os.Rename(tmpPath, s.path): atomic replacement; a rename onto itself is a no-op.
Rename ==
    /\ wpc = "written"
    /\ files' = IF tmpPath = path THEN files
                ELSE [files EXCEPT ![path] = files[tmpPath], ![tmpPath] = NoFile]
    /\ wpc' = "idle"
    /\ UNCHANGED <<wdata, prevTbl, saveRest>>

\* os.WriteFile or os.Rename returns an error: saveProcesses returns it.
SaveError ==
    /\ wpc \in {"writing", "written"}
    /\ wpc' = "failed"
    /\ UNCHANGED <<files, wdata, prevTbl, saveRest>>

\* The writer is killed anywhere between opening the temporary file and the rename.
Crash ==
    /\ wpc \in {"writing", "written"}
    /\ wpc' = "crashed"
    /\ UNCHANGED <<files, wdata, prevTbl, saveRest>>

\* The next store operation, in this or in a later invocation.
SaveAgain ==
    /\ wpc \in {"failed", "crashed"}
    /\ wpc' = "idle"
    /\ UNCHANGED <<files, wdata, prevTbl, saveRest>>

\* ------------------------------------ the Manager's methods, step by step
\* Two goroutines of one invocation call StartProcess, StopProcess and
\* ListProcesses; a step is one access to the lock, the cache, the store or
\* tmux.  A store write succeeds here.
Threads == {"t1", "t2"}

\* What a goroutine runs (op), where it is (pc), the name it works on, the
\* handle findProcess holds, the names ListProcesses has yet to visit.
IdleThr == [op |-> "idle", pc |-> "", name |-> "", found |-> NoProc, todo |-> {}]

obsVars == <<lastOp, lastName, lastErr, lastStatus, lastList, acted, ioFault,
             lastPruned, startHist>>

\* findProcess of goroutine record r has failed: StopProcess returns the
\* error, ListProcesses goes on with the next name.
FindFailed(r) ==
    IF r.op = "stop" THEN IdleThr
    ELSE [r EXCEPT !.pc = "iter", !.found = NoProc]

\* findProcess has returned the handle h.
FindDone(r, h) ==
    [r EXCEPT !.pc = IF r.op = "stop" THEN "kill" ELSE "sample", !.found = h]

\* findProcess, the lookup in the cache between m.mu.RLock() and RUnlock().
FindCache(r, n) ==
    IF processes[n].has
    THEN FindDone([r EXCEPT !.name = n], processes[n])
    ELSE [r EXCEPT !.pc = "get", !.name = n]

\* StartProcess: m.mu.Lock()
GoStartLock(t, n) ==
    /\ thr[t].op = "idle"
    /\ mu = "free"
    /\ mu' = t
    /\ thr' = [thr EXCEPT ![t] = [IdleThr EXCEPT !.op = "start", !.pc = "guard", !.name = n]]
    /\ UNCHANGED <<store, processes, sessions, cmd, alive, obsVars>>

\* StartProcess: the duplicate guard; the deferred Unlock on return
GoStartGuard(t) ==
    /\ thr[t].pc = "guard"
    /\ IF StartProcessGuard(thr[t].name)
       THEN mu' = "free" /\ thr' = [thr EXCEPT ![t] = IdleThr]
       ELSE mu' = mu /\ thr' = [thr EXCEPT ![t].pc = "create"]
    /\ UNCHANGED <<store, processes, sessions, cmd, alive, obsVars>>

\* StartProcess: new-session, send-keys, pipe-pane, m.processes[name] = process
GoStartCreate(t) ==
    LET n == thr[t].name IN
    /\ thr[t].pc = "create"
    /\ IF sessions[n] # 0
       THEN /\ mu' = "free"
            /\ thr' = [thr EXCEPT ![t] = IdleThr]
            /\ UNCHANGED <<processes, sessions, cmd, alive>>
       ELSE \E p \in NewPids({}) : \E c \in NewPids({p}), now \in Now :
            /\ sessions' = [sessions EXCEPT ![n] = p]
            /\ alive' = alive \cup {p}
            /\ cmd' = [cmd EXCEPT ![n] = "running"]
            /\ processes' = [processes EXCEPT ![n] =
                    Process(c, StatusRunning, TRUE, now, ProcessTypeLocal)]
            /\ thr' = [thr EXCEPT ![t].pc = "save"]
            /\ mu' = mu
    /\ UNCHANGED <<store, obsVars>>

\* StartProcess: list-panes (an error is returned), SaveProcess, return
GoStartSave(t) ==
    LET n == thr[t].name IN
    /\ thr[t].pc = "save"
    /\ store' = IF sessions[n] = 0 THEN store
                ELSE SaveProcess(store, n,
                        ProcessInfo(sessions[n], StatusRunning, WorkDir, 0, ProcessTypeLocal),
                        TRUE)
    /\ mu' = "free"
    /\ thr' = [thr EXCEPT ![t] = IdleThr]
    /\ UNCHANGED <<processes, sessions, cmd, alive, obsVars>>

\* StopProcess: its first step is the cache lookup of findProcess
GoStopFind(t, n) ==
    /\ thr[t].op = "idle"
    /\ mu = "free"
    /\ thr' = [thr EXCEPT ![t] = FindCache([IdleThr EXCEPT !.op = "stop"], n)]
    /\ UNCHANGED <<store, processes, sessions, cmd, alive, mu, obsVars>>

\* findProcess: GetProcess, the signal-0 probe, RemoveProcess of a dead record
GoFindStore(t) ==
    LET n == thr[t].name
        rec == GetProcess(store, n)
    IN  /\ thr[t].pc = "get"
        /\ IF ~rec.has
           THEN /\ thr' = [thr EXCEPT ![t] = FindFailed(@)]
                /\ store' = store
           ELSE IF ~Probe(rec.pid, alive)
           THEN /\ thr' = [thr EXCEPT ![t] = FindFailed(@)]
                /\ store' = RemoveProcess(store, n, TRUE)
           ELSE /\ thr' = [thr EXCEPT ![t].pc = "pane", ![t].found =
                            Process(0, rec.status, TRUE, rec.lastUpdated, ProcessTypeLocal)]
                /\ store' = store
        /\ UNCHANGED <<processes, sessions, cmd, alive, mu, obsVars>>

\* findProcess: tmux list-panes
GoFindPane(t) ==
    LET n == thr[t].name IN
    /\ thr[t].pc = "pane"
    /\ thr' = IF sessions[n] = 0
              THEN [thr EXCEPT ![t] = FindFailed(@)]
              ELSE [thr EXCEPT ![t].pc = "insert", ![t].found.pid = sessions[n]]
    /\ UNCHANGED <<store, processes, sessions, cmd, alive, mu, obsVars>>

\* findProcess: m.mu.Lock(); m.processes[name] = process; m.mu.Unlock()
GoFindInsert(t) ==
    /\ thr[t].pc = "insert"
    /\ mu = "free"
    /\ processes' = [processes EXCEPT ![thr[t].name] = thr[t].found]
    /\ thr' = [thr EXCEPT ![t] = FindDone(@, @.found)]
    /\ UNCHANGED <<store, sessions, cmd, alive, mu, obsVars>>

\* StopProcess: tmux kill-session for a handle with a session
GoStopKill(t) ==
    LET n == thr[t].name
        killed == thr[t].found.tmux /\ sessions[n] # 0
    IN  /\ thr[t].pc = "kill"
        /\ sessions' = IF killed THEN [sessions EXCEPT ![n] = 0] ELSE sessions
        /\ alive' = IF killed THEN alive \ {sessions[n]} ELSE alive
        /\ cmd' = IF killed THEN [cmd EXCEPT ![n] = "none"] ELSE cmd
        /\ thr' = [thr EXCEPT ![t].pc = "remove"]
        /\ UNCHANGED <<store, processes, mu, obsVars>>

\* StopProcess: m.store.RemoveProcess(name)
GoStopRemove(t) ==
    /\ thr[t].pc = "remove"
    /\ store' = RemoveProcess(store, thr[t].name, TRUE)
    /\ thr' = [thr EXCEPT ![t].pc = "delete"]
    /\ UNCHANGED <<processes, sessions, cmd, alive, mu, obsVars>>

\* StopProcess: m.mu.Lock(); delete(m.processes, name); m.mu.Unlock(); return
GoStopDelete(t) ==
    /\ thr[t].pc = "delete"
    /\ mu = "free"
    /\ processes' = [processes EXCEPT ![thr[t].name] = NoProc]
    /\ thr' = [thr EXCEPT ![t] = IdleThr]
    /\ UNCHANGED <<store, sessions, cmd, alive, mu, obsVars>>

\* ListProcesses: its first step is m.store.ListProcesses()
GoListStore(t) ==
    /\ thr[t].op = "idle"
    /\ store' = StoreListProcesses(store, alive, TRUE)
    /\ thr' = [thr EXCEPT ![t] = [IdleThr EXCEPT !.op = "list", !.pc = "iter",
                                     !.todo = StoreListResult(store, alive)]]
    /\ UNCHANGED <<processes, sessions, cmd, alive, mu, obsVars>>

\* ListProcesses: the next name of the loop and the cache lookup of its
\* findProcess, or the return
GoListIter(t) ==
    /\ thr[t].pc = "iter"
    /\ IF thr[t].todo = {}
       THEN thr' = [thr EXCEPT ![t] = IdleThr]
       ELSE /\ mu = "free"
            /\ \E n \in thr[t].todo :
                 thr' = [thr EXCEPT ![t] = FindCache([@ EXCEPT !.todo = @ \ {n}], n)]
    /\ UNCHANGED <<store, processes, sessions, cmd, alive, mu, obsVars>>

\* ListProcesses: updateResourceUsage of the handle found, which saves the record
GoListSample(t) ==
    LET n == thr[t].name IN
    \E outcome \in {"ok", "fail"}, now \in Now :
    LET u == updateResourceUsage(thr[t].found, outcome, "running", now, alive) IN
    /\ thr[t].pc = "sample"
    /\ ~u.save => (outcome = "ok" /\ now = MaxClock)
    /\ processes' = IF processes[n] = thr[t].found
                    THEN [processes EXCEPT ![n] = u.proc] ELSE processes
    /\ store' = IF u.save THEN SaveProcess(store, n, u.rec, TRUE) ELSE store
    /\ thr' = [thr EXCEPT ![t].pc = "iter", ![t].found = NoProc]
    /\ UNCHANGED <<sessions, cmd, alive, mu, obsVars>>

\* The invocation ends when no method is running; the next one starts with
\* an empty cache.
GoNewInvocation ==
    /\ \A t \in Threads : thr[t].op = "idle"
    /\ NewInvocation
    /\ UNCHANGED concVars

\* ------------------------------ two invocations start the same name
\* Each CLI invocation has a Manager of its own; they share the tmux server
\* and the store.  Nothing but the two StartProcess calls acts here: no
\* session is stopped and no pane exits.
Invocations == {"a", "b"}

IdleInv == [pc |-> "idle", name |-> "", has |-> FALSE, res |-> "", overlap |-> FALSE]

\* Another invocation is inside its StartProcess.
Overlaps(i) == \E j \in Invocations \ {i} : inv[j].pc \notin {"idle", "done"}

\* An invocation takes a step: its record changes to r.
InvStep(i, r) ==
    inv' = [inv EXCEPT ![i] = [r EXCEPT !.overlap = inv[i].overlap \/ Overlaps(i)]]

NewSessionNoCheck(ss, n, p) == [ok |-> TRUE, ss |-> ss \cup {[name |-> n, pane |-> p]}]

\* `tmux new-session -d -s spin-<name>`: the server refuses a name it has;
\* createCmd.Run() then returns an error.
NewSession(ss, n, p) ==
    IF \E x \in ss : x.name = n
    THEN [ok |-> FALSE, ss |-> ss]
    ELSE [ok |-> TRUE, ss |-> ss \cup {[name |-> n, pane |-> p]}]

\* StartProcess: the guard on this invocation's cache, setupTmux, the output file
RaceGuard(i, n) ==
    \E setupOk \in BOOLEAN :
    /\ inv[i].pc = "idle"
    /\ IF inv[i].has
       THEN InvStep(i, [inv[i] EXCEPT !.pc = "done", !.name = n, !.res = ErrAlreadyRunning])
       ELSE IF ~setupOk
       THEN InvStep(i, [inv[i] EXCEPT !.pc = "done", !.name = n, !.res = ErrSetup])
       ELSE InvStep(i, [inv[i] EXCEPT !.pc = "create", !.name = n])
    /\ UNCHANGED <<server, mgrVars>>

\* StartProcess: createCmd.Run()
RaceCreate(i) ==
    \E p \in PIDs \ {x.pane : x \in server} :
    LET r == NewSession(server, inv[i].name, p) IN
    /\ inv[i].pc = "create"
    /\ server' = r.ss
    /\ IF r.ok
       THEN InvStep(i, [inv[i] EXCEPT !.pc = "send"])
       ELSE InvStep(i, [inv[i] EXCEPT !.pc = "done", !.res = ErrCreate])
    /\ UNCHANGED mgrVars

\* StartProcess: send-keys and pipe-pane, then m.processes[name] = process
RaceSend(i) ==
    \E failAt \in {"none", "send", "pipe"} :
    /\ inv[i].pc = "send"
    /\ IF failAt = "none"
       THEN InvStep(i, [inv[i] EXCEPT !.pc = "save", !.has = TRUE])
       ELSE InvStep(i, [inv[i] EXCEPT !.pc = "done",
                          !.res = IF failAt = "send" THEN ErrSend ELSE ErrPipe])
    /\ UNCHANGED <<server, mgrVars>>

\* StartProcess: list-panes, SaveProcess, return nil
RaceSave(i) ==
    \E panePidOk \in BOOLEAN :
    LET n == inv[i].name
        pane == CHOOSE q \in {x.pane : x \in {y \in server : y.name = n}} : TRUE
    IN  /\ inv[i].pc = "save"
        /\ IF panePidOk
           THEN /\ store' = SaveProcess(store, n,
                       ProcessInfo(pane, StatusRunning, WorkDir, 0, ProcessTypeLocal), TRUE)
                /\ InvStep(i, [inv[i] EXCEPT !.pc = "done", !.res = "ok"])
           ELSE /\ store' = store
                /\ InvStep(i, [inv[i] EXCEPT !.pc = "done", !.res = ErrPanePid])
        /\ UNCHANGED <<server, processes, sessions, cmd, alive, obsVars>>

\* --------------------------------------- the Store's methods on the file
\* Each method is one step (a store mutex serialises them): it loads the
\* file, works on the table and saves it.  readOk: os.ReadFile of an
\* existing file succeeds; writeOk: os.WriteFile and os.Rename succeed.
NoCall == [op |-> "none", name |-> "", rec |-> NoRec, err |-> "",
           readOk |-> TRUE, parsed |-> TRUE, writeOk |-> TRUE]

\* The records a caller saves.
Infos == {ProcessInfo(q, StatusRunning, WorkDir, 0, ProcessTypeLocal) : q \in PIDs}

\* Store.loadProcesses: a missing file is an empty map, a file that cannot
\* be read or does not parse is an error.
loadProcesses(readOk) ==
    IF ~files[path].exists THEN [err |-> "ok", tbl |-> NoTable]
    ELSE IF ~readOk THEN [err |-> "ReadFailed", tbl |-> NoTable]
    ELSE IF ~ValidJSON(files[path].data) THEN [err |-> "ParseFailed", tbl |-> NoTable]
    ELSE [err |-> "ok", tbl |-> Unmarshal(files[path].data)]

\* Store.saveProcesses as one step: the file is replaced when the write and
\* the rename succeed; otherwise only the temporary file has been touched.
saveProcesses(tbl, writeOk) ==
    IF writeOk
    THEN [files EXCEPT ![path] = File(Marshal(tbl)), ![tmpPath] = NoFile]
    ELSE [files EXCEPT ![tmpPath] = File(Marshal(tbl))]

UpsertAlone(tbl, n, info) == [NoTable EXCEPT ![n] = info]

\* processes[info.Name] = info
Upsert(tbl, n, info) == [tbl EXCEPT ![n] = info]

\* What a call records: the faults it met and what it returned.
Called(op, n, r, err, l, readOk, writeOk) ==
    sop' = [op |-> op, name |-> n, rec |-> r, err |-> err,
            readOk |-> l.err # "ReadFailed",
            parsed |-> l.err # "ParseFailed",
            writeOk |-> writeOk]

\* Store.SaveProcess(info)
StoreSave(n, info) ==
    \E readOk, writeOk \in BOOLEAN :
    LET l == loadProcesses(readOk)
        tbl == IF l.err = "ok" THEN l.tbl ELSE NoTable
    IN  /\ files[path].exists \/ readOk
        /\ files' = saveProcesses(Upsert(tbl, n, info), writeOk)
        /\ Called("save", n, info, IF writeOk THEN "ok" ELSE "WriteFailed",
                  l, readOk, writeOk)

\* Store.RemoveProcess(name)
StoreRemove(n) ==
    \E readOk, writeOk \in BOOLEAN :
    LET l == loadProcesses(readOk) IN
    /\ files[path].exists \/ readOk
    /\ IF l.err # "ok"
       THEN /\ writeOk
            /\ files' = files
            /\ Called("remove", n, NoRec, l.err, l, readOk, TRUE)
       ELSE /\ files' = saveProcesses([l.tbl EXCEPT ![n] = NoRec], writeOk)
            /\ Called("remove", n, NoRec, IF writeOk THEN "ok" ELSE "WriteFailed",
                      l, readOk, writeOk)

\* Store.GetProcess(name)
StoreGet(n) ==
    \E readOk \in BOOLEAN :
    LET l == loadProcesses(readOk) IN
    /\ files[path].exists \/ readOk
    /\ files' = files
    /\ IF l.err # "ok"
       THEN Called("get", n, NoRec, l.err, l, readOk, TRUE)
       ELSE IF ~l.tbl[n].has
       THEN Called("get", n, NoRec, ErrNotFound, l, readOk, TRUE)
       ELSE Called("get", n, l.tbl[n], "ok", l, readOk, TRUE)

\* Store.ListProcesses(): al are the pids that answer the probe; the error
\* of the save is logged and dropped.
StoreList ==
    \E readOk, writeOk \in BOOLEAN, al \in SUBSET PIDs :
    LET l == loadProcesses(readOk) IN
    /\ files[path].exists \/ readOk
    /\ IF l.err # "ok"
       THEN /\ writeOk /\ al = {}
            /\ files' = files
            /\ Called("list", "", NoRec, l.err, l, readOk, TRUE)
       ELSE /\ files' = saveProcesses(StoreListPruned(l.tbl, al), writeOk)
            /\ Called("list", "", NoRec, "ok", l, readOk, writeOk)

\* The store file is damaged from outside (an editor, a full disk).
CorruptFile ==
    /\ files[path].exists
    /\ ValidJSON(files[path].data)
    /\ files' = [files EXCEPT ![path] = File(SubSeq(@.data, 1, Len(@.data) - 1))]
    /\ sop' = NoCall

\* The store file is deleted.
DeleteFile ==
    /\ files[path].exists
    /\ files' = [files EXCEPT ![path] = NoFile]
    /\ sop' = NoCall

\* ------------------------------------------ the ServiceManager and Docker
\* The services of a project, the keys of cfg.Volumes and the values of
\* cfg.Port (0: the service has no port).
Services == {"postgresql", "redis"}
VolumeKeys == {"data"}
ServicePorts == {5432}

Cfgs == [port : ServicePorts, volumes : SUBSET VolumeKeys, health : BOOLEAN]

\* The configurations of a service started again and again: cfg.Port is a
\* published port, or 0 for a service that publishes none.
RestartCfgs == [port : ServicePorts \cup {0}, volumes : {VolumeKeys}, health : BOOLEAN]

ErrList == "ListContainersFailed"
ErrContainerNotFound == "ContainerNotFound"
ErrInspect == "InspectFailed"
ErrStopContainer == "StopContainerFailed"
ErrPortInUse == "PortInUse"
ErrPull == "PullFailed"
ErrRemoveExisting == "RemoveExistingFailed"
ErrRemoveContainer == "RemoveContainerFailed"
ErrCreateContainer == "CreateContainerFailed"
ErrStartContainer == "StartContainerFailed"
ErrHealthInspect == "HealthCheckInspectFailed"
ErrHealthTimeout == "HealthCheckTimeout"
ErrListVolumes == "ListVolumesFailed"

\* fmt.Sprintf("spin_%s", strings.ReplaceAll(name, "postgresql", "postgres")):
\* the name Docker knows the container of a service by.  Docker keeps
\* container names unique, so the model identifies a container by its name.
ContainerName(name) ==
    CASE name = "postgresql" -> "spin_postgres"
      [] name = "redis" -> "spin_redis"

ContainerNames == {ContainerName(n) : n \in Services}

\* Source: fmt.Sprintf("spin_%s_data", name), where name is the loop variable
\* over the keys of cfg.Volumes, which hides the service's name.
VolumeSource(name, key) ==
    CASE key = "data" -> "spin_data_data"
      [] key = "config" -> "spin_config_data"

NamedVolumes == {VolumeSource(n, k) : n \in Services, k \in VolumeKeys}

\* The volume Docker makes for a VOLUME of the image that no mount covers:
\* its name is a hash, and it belongs to the one container.
AnonVolume(c) ==
    CASE c = "spin_postgres" -> "anon_postgres"
      [] c = "spin_redis" -> "anon_redis"

\* A sweep that takes every volume for one of the tool's.
HasAnyPrefix(v) == TRUE

\* A volume with the prefix that no service of this project mounts: the
\* volume of the key "cache" of another project's service.
LeftOverVolumes == {"spin_cache_data"}

\* strings.HasPrefix(volume.Name, "spin_")
HasSpinPrefix(v) == v \in NamedVolumes \cup LeftOverVolumes

NoContainer ==
    [has |-> FALSE, running |-> FALSE, port |-> 0, keys |-> {}, mounts |-> {},
     anon |-> FALSE]

\* The image declares its data directory a VOLUME; a mount of the key "data"
\* covers it, and without one the container gets an anonymous volume.
ImageVolumeUncovered(cfg) == "data" \notin cfg.volumes

\* PortBindings of createContainer: only a cfg.Port other than 0 is published.
PortBindings(port) == IF port # 0 THEN {port} ELSE {}

\* A host port nobody listens on: no other process, no running container.
HostPortFree(r, port) ==
    /\ port \notin r.bound
    /\ \A c \in ContainerNames :
          ~(r.containers[c].running /\ port \in PortBindings(r.containers[c].port))

\* A port check that finds every port free.
isPortAvailableAlways(r, port) == TRUE

\* net.Listen on 127.0.0.1:port, closed at once; port 0 asks for any free port.
isPortAvailable(r, port) == port = 0 \/ HostPortFree(r, port)

\* ---- the Docker daemon's calls
\* ContainerStop: the container no longer runs, and lets go of its port.
ContainerStop(r, c) ==
    [r EXCEPT !.containers[c].running = FALSE]

\* A daemon that deletes, with a container, every volume the container mounts.
RemovedVolumesAll(cont, c, removeVolumes) ==
    cont.mounts \cup (IF cont.anon THEN {AnonVolume(c)} ELSE {})

\* The volumes the daemon deletes with a container: with RemoveVolumes its
\* anonymous volumes, and never a named one.
RemovedVolumes(cont, c, removeVolumes) ==
    IF removeVolumes /\ cont.anon THEN {AnonVolume(c)} ELSE {}

\* ContainerRemove with Force: the container goes, running or not.
ContainerRemove(r, c, removeVolumes) ==
    [r EXCEPT !.containers[c] = NoContainer,
              !.volumes = @ \ RemovedVolumes(r.containers[c], c, removeVolumes)]

\* ContainerCreate: the container exists, not started; the volumes of its
\* mounts that do not exist yet are made.
ContainerCreate(r, c, cfg, mounts) ==
    [r EXCEPT !.containers[c] =
                  [has |-> TRUE, running |-> FALSE, port |-> cfg.port,
                   keys |-> cfg.volumes, mounts |-> mounts,
                   anon |-> ImageVolumeUncovered(cfg)],
              !.volumes = @ \cup mounts
                            \cup (IF ImageVolumeUncovered(cfg)
                                    THEN {AnonVolume(c)} ELSE {})]

\* ContainerStart refuses when a published port is taken.
CanStart(r, c) ==
    \A p \in PortBindings(r.containers[c].port) : HostPortFree(r, p)

ContainerStart(r, c) ==
    [r EXCEPT !.containers[c].running = TRUE]

\* ---- the ServiceManager's methods
\* FindContainer: the id of the container of the name, "" with an error.
FindContainer(r, name, listOk) ==
    IF listOk /\ r.containers[ContainerName(name)].has
        THEN ContainerName(name) ELSE ""

FindContainerErr(r, name, listOk) ==
    IF ~listOk THEN ErrList
    ELSE IF r.containers[ContainerName(name)].has THEN "ok"
    ELSE ErrContainerNotFound

\* What can go wrong in one call of StartService: the two container listings
\* (their errors are dropped), and one of the calls whose error is returned.
StartFaults ==
    [list1 : BOOLEAN, list2 : BOOLEAN,
     fail : {"none", "inspect", "stop", "pull", "remove", "create", "start",
             "hinspect", "htimeout"}]

Done(r, err, calls) == [r |-> r, err |-> err, calls |-> calls]

\* createContainer: removes the container of the name, keeping its volumes,
\* and creates the new one with one named volume per key of cfg.Volumes.
createContainer(r, name, cfg, in, calls) ==
    LET c == ContainerName(name)
        existing == FindContainer(r, name, in.list2)
        calls1 == IF existing # "" THEN Append(calls, "remove") ELSE calls
        r1 == IF existing # "" THEN ContainerRemove(r, existing, FALSE) ELSE r
        mounts == {VolumeSource(name, k) : k \in cfg.volumes}
    IN  IF existing # "" /\ in.fail = "remove"
            THEN Done(r, ErrRemoveExisting, calls1)
        ELSE IF in.fail = "create" \/ r1.containers[c].has
            THEN Done(r1, ErrCreateContainer, Append(calls1, "create"))
        ELSE Done(ContainerCreate(r1, c, cfg, mounts), "ok",
                  Append(calls1, "create"))

\* A StartService that takes back the container whose health check failed.
HealthFailedRollback(r, c) == ContainerRemove(ContainerStop(r, c), c, FALSE)

\* lines 90-92: the error of waitForHealthy is returned, nothing else is done.
HealthFailed(r, c) == r

\* StartService from its call of pullImage on.
StartFromPull(r, name, cfg, in, calls) ==
    LET c == ContainerName(name)
        callsP == Append(calls, "pull")
        rP == [r EXCEPT !.images = TRUE]
        made == createContainer(rP, name, cfg, in, callsP)
        callsS == Append(made.calls, "start")
    IN  IF in.fail = "pull" THEN Done(r, ErrPull, callsP)
        ELSE IF made.err # "ok" THEN made
        ELSE IF in.fail = "start" \/ ~CanStart(made.r, c)
            THEN Done(made.r, ErrStartContainer, callsS)
        ELSE IF cfg.health /\ in.fail = "hinspect"
            THEN Done(HealthFailed(ContainerStart(made.r, c), c), ErrHealthInspect,
                      Append(callsS, "wait"))
        ELSE IF cfg.health /\ in.fail = "htimeout"
            THEN Done(HealthFailed(ContainerStart(made.r, c), c), ErrHealthTimeout,
                      Append(callsS, "wait"))
        ELSE Done(ContainerStart(made.r, c), "ok",
                  IF cfg.health THEN Append(callsS, "wait") ELSE callsS)

StartServiceRun(r, name, cfg, in) ==
    LET existingID == FindContainer(r, name, in.list1)
    IN  IF existingID # ""
            THEN IF in.fail = "inspect" THEN Done(r, ErrInspect, <<>>)
                 ELSE IF r.containers[existingID].running
                     THEN IF in.fail = "stop"
                              THEN Done(r, ErrStopContainer, <<"stop">>)
                              ELSE StartFromPull(ContainerStop(r, existingID),
                                                 name, cfg, in, <<"stop">>)
                     ELSE StartFromPull(r, name, cfg, in, <<>>)
            ELSE IF ~isPortAvailable(r, cfg.port)
                     THEN Done(r, ErrPortInUse, <<>>)
                     ELSE StartFromPull(r, name, cfg, in, <<>>)

\* The record of a call: what it was given, what it returned, the Docker
\* calls it made, the container of the name before it (prev) and, when the
\* call before it was a successful RemoveService of the same name that kept
\* the volumes, the container that call removed (removed); for
\* CleanupVolumes, the volumes whose VolumeRemove failed (failed) and those
\* it removed (swept).
NoSvc ==
    [op |-> "none", name |-> "", err |-> "", removeVolumes |-> FALSE,
     cfg |-> [port |-> 0, volumes |-> {}, health |-> FALSE], calls |-> <<>>,
     prev |-> NoContainer, removed |-> NoContainer, failed |-> {}, swept |-> {}]

Returned(op, name, err, removeVolumes, cfg, calls) ==
    [op |-> op, name |-> name, err |-> err, removeVolumes |-> removeVolumes,
     cfg |-> cfg, calls |-> calls,
     prev |-> IF name \in Services
                THEN runtime.containers[ContainerName(name)] ELSE NoContainer,
     removed |-> IF /\ op = "start" /\ svc.op = "remove" /\ svc.err = "ok"
                    /\ ~svc.removeVolumes /\ svc.name = name
                   THEN svc.prev ELSE NoContainer,
     failed |-> {}, swept |-> {}]

StartService(name, cfg) ==
    \E out \in {StartServiceRun(runtime, name, cfg, in) : in \in StartFaults} :
        /\ runtime' = out.r
        /\ svc' = Returned("start", name, out.err, FALSE, cfg, out.calls)

StopService(name) ==
    \E listOk, stopOk \in BOOLEAN :
        LET containerID == FindContainer(runtime, name, listOk)
            err == FindContainerErr(runtime, name, listOk)
        IN  IF err # "ok"
                THEN /\ svc' = Returned("stop", name, err, FALSE, NoSvc.cfg, <<>>)
                     /\ UNCHANGED runtime
            ELSE IF ~stopOk
                THEN /\ svc' = Returned("stop", name, ErrStopContainer, FALSE,
                                        NoSvc.cfg, <<"stop">>)
                     /\ UNCHANGED runtime
            ELSE /\ svc' = Returned("stop", name, "ok", FALSE, NoSvc.cfg, <<"stop">>)
                 /\ runtime' = ContainerStop(runtime, containerID)

RemoveService(name, removeVolumes) ==
    \E listOk, removeOk \in BOOLEAN :
        LET containerID == FindContainer(runtime, name, listOk)
            err == FindContainerErr(runtime, name, listOk)
        IN  IF err # "ok"
                THEN /\ svc' = Returned("remove", name, err, removeVolumes,
                                        NoSvc.cfg, <<>>)
                     /\ UNCHANGED runtime
            ELSE IF ~removeOk
                THEN /\ svc' = Returned("remove", name, ErrRemoveContainer,
                                        removeVolumes, NoSvc.cfg, <<"remove">>)
                     /\ UNCHANGED runtime
            ELSE /\ svc' = Returned("remove", name, "ok", removeVolumes,
                                    NoSvc.cfg, <<"remove">>)
                 /\ runtime' = ContainerRemove(runtime, containerID, removeVolumes)

\* The volumes some container, running or stopped, mounts.
InUse(r) ==
    UNION {r.containers[c].mounts
             \cup (IF r.containers[c].anon THEN {AnonVolume(c)} ELSE {})
           : c \in {d \in ContainerNames : r.containers[d].has}}

\* CleanupVolumes: every volume with the prefix that no container mounts is
\* removed; a removal that fails is reported and skipped.
CleanupVolumes ==
    \E listOk, volumesOk \in BOOLEAN :
        IF ~listOk
            THEN /\ svc' = Returned("cleanup", "", ErrList, FALSE, NoSvc.cfg, <<>>)
                 /\ UNCHANGED runtime
        ELSE IF ~volumesOk
            THEN /\ svc' = Returned("cleanup", "", ErrListVolumes, FALSE,
                                    NoSvc.cfg, <<>>)
                 /\ UNCHANGED runtime
        ELSE LET unused == {v \in runtime.volumes :
                               HasSpinPrefix(v) /\ v \notin InUse(runtime)}
             IN  \E failing \in SUBSET unused :
                    /\ runtime' = [runtime EXCEPT !.volumes = @ \ (unused \ failing)]
                    /\ svc' = [Returned("cleanup", "", "ok", FALSE, NoSvc.cfg, <<>>)
                                 EXCEPT !.failed = failing,
                                        !.swept = unused \ failing]

\* ---- the host
\* Another process of the host starts to listen on a port.
PortBind(p) ==
    /\ HostPortFree(runtime, p)
    /\ runtime' = [runtime EXCEPT !.bound = @ \cup {p}]
    /\ svc' = NoSvc

PortRelease(p) ==
    /\ p \in runtime.bound
    /\ runtime' = [runtime EXCEPT !.bound = @ \ {p}]
    /\ svc' = NoSvc

\* Another project's service has left its volume behind.
VolumeLeftOver(v) ==
    /\ v \notin runtime.volumes
    /\ runtime' = [runtime EXCEPT !.volumes = @ \cup {v}]
    /\ svc' = NoSvc

\* The main process of a container exits.
ContainerExit(c) ==
    /\ runtime.containers[c].running
    /\ runtime' = ContainerStop(runtime, c)
    /\ svc' = NoSvc

\* ------------------------------ ServiceManager.waitForHealthy, in steps
\* Time is counted in ticks of half a second, from the call of waitForHealthy.
Second == 2

\* time.Sleep(1 * time.Second)
Interval == 1 * Second

\* timeout = 60 * time.Second, when StartPeriod does not parse
DefaultTimeout == 60 * Second

\* The values of healthCheck.StartPeriod: a number of seconds, or -1 for a
\* string that is no duration.
StartPeriods == (0..MaxStartPeriod) \cup {-1}

\* time.ParseDuration
ParseDuration(sp) ==
    IF sp >= 0 THEN [ok |-> TRUE, d |-> sp * Second] ELSE [ok |-> FALSE, d |-> 0]

Timeout(sp) ==
    IF ParseDuration(sp).ok THEN ParseDuration(sp).d ELSE DefaultTimeout

\* A loop test that lets the deadline pass by one interval.
BeforeOrSoon(t, deadline) == t < deadline + Interval

\* time.Now().Before(deadline)
Before(t, deadline) == t < deadline

\* What one ContainerInspect answers: an error, a container without health
\* state ("none"), or the status of its health state.
HealthReports == {"error", "none", "starting", "unhealthy", "healthy"}

\* now: the time; lat: how long the last ContainerInspect took; seen: what
\* the inspections of this call have answered.
IdleWait ==
    [pc |-> "idle", now |-> 0, deadline |-> 0, res |-> "", lat |-> 0, seen |-> {}]

\* lines 387-393: the deadline is set.
WaitBegin(sp) ==
    /\ hw.pc = "idle"
    /\ hw' = [IdleWait EXCEPT !.pc = "test", !.deadline = Timeout(sp)]

\* lines 394 and 415: the loop's test, and the error after the loop.
WaitTest ==
    /\ hw.pc = "test"
    /\ hw' = IF Before(hw.now, hw.deadline)
                THEN [hw EXCEPT !.pc = "inspect"]
                ELSE [hw EXCEPT !.pc = "done", !.res = ErrHealthTimeout]

\* lines 395-411: one ContainerInspect, which takes its time, and what the
\* loop does with the answer.
WaitInspect ==
    /\ hw.pc = "inspect"
    /\ \E lat \in 0..MaxLatency, rep \in HealthReports :
          LET h == [hw EXCEPT !.now = @ + lat, !.lat = lat, !.seen = @ \cup {rep}]
          IN  hw' = CASE rep = "error" -> [h EXCEPT !.pc = "done", !.res = ErrInspect]
                      [] rep \in {"none", "healthy"} -> [h EXCEPT !.pc = "done", !.res = "ok"]
                      [] OTHER -> [h EXCEPT !.pc = "sleep"]

\* line 412
WaitSleep ==
    /\ hw.pc = "sleep"
    /\ hw' = [hw EXCEPT !.pc = "test", !.now = @ + Interval]

\* waitForHealthy has returned; the next call is another one.
WaitReturn ==
    /\ hw.pc = "done"
    /\ hw' = IdleWait

\* --------------------------------------- the CPU percent of a container
\* A float64 is modelled by the rational it stands for, a pair of a numerator
\* and a denominator without common divisor.
RECURSIVE GCD(_, _)
GCD(a, b) == IF b = 0 THEN a ELSE GCD(b, a % b)

Rat(n, d) == <<n \div GCD(n, d), d \div GCD(n, d)>>

Times(q, k) == Rat(q[1] * k, q[2])

\* What the decoded types.StatsJSON holds: the cumulative CPU time of the
\* container and of the system, in nanoseconds, now and at the previous
\* sample, and the per-CPU list.  In SmallSamples no counter goes back.
SmallSamples ==
    {v \in [preCpu : 0..MaxUsage, cpu : 0..MaxUsage, preSys : 0..MaxUsage,
            sys : 0..MaxUsage, ncpu : 0..MaxCPUs] :
        v.preCpu <= v.cpu /\ v.preSys <= v.sys}

\* 200,000,000 ns of CPU time in 1,000,000,000 ns of system time, on 4 CPUs.
BusySample ==
    [preCpu |-> 100000000, cpu |-> 300000000, preSys |-> 1000000000,
     sys |-> 2000000000, ncpu |-> 4]

\* Samples taken across a restart of the container or of the host: a
\* counter of the current sample is lower than that of the previous one.
ResetSamples ==
    {v \in [preCpu : 0..MaxUsage, cpu : 0..MaxUsage, preSys : 0..MaxUsage,
            sys : 0..MaxUsage, ncpu : 0..MaxCPUs] :
        v.cpu < v.preCpu \/ v.sys < v.preSys}

Samples == SmallSamples \cup ResetSamples \cup {BusySample}

\* a - b in uint64: the number over * 2^64 + n, where over is 1 when the
\* subtraction wraps around.
Sub64(a, b) == [over |-> IF a >= b THEN 0 ELSE 1, n |-> a - b]

\* float64(d) > 0 for a uint64 d.
Positive(d) == d.over = 1 \/ d.n > 0

\* The percentage of one CPU, whatever the number of CPUs.
cpuPercentOneCPU(v) ==
    LET cpuDelta == Sub64(v.cpu, v.preCpu)
        systemDelta == Sub64(v.sys, v.preSys)
    IN  IF Positive(systemDelta) /\ Positive(cpuDelta)
            THEN IF cpuDelta.over = 0 /\ systemDelta.over = 0
                     THEN Times(Rat(cpuDelta.n, systemDelta.n), 100)
                     ELSE <<cpuDelta.n * 100, systemDelta.n>>
            ELSE Rat(0, 1)

\* manager.go 630-636, and the same lines of `spin services stats`.
\* The percent is (over[1] * 2^64 + p[1]) / (over[2] * 2^64 + p[2]), with p
\* the pair of cpuPercent and over the pair of cpuPercentOver; without a
\* wrapped delta over is <<0, 0>> and p is the reduced fraction.
cpuPercent(v) ==
    LET cpuDelta == Sub64(v.cpu, v.preCpu)
        systemDelta == Sub64(v.sys, v.preSys)
    IN  IF Positive(systemDelta) /\ Positive(cpuDelta)
            THEN IF cpuDelta.over = 0 /\ systemDelta.over = 0
                     THEN Times(Times(Rat(cpuDelta.n, systemDelta.n), v.ncpu), 100)
                     ELSE <<cpuDelta.n * v.ncpu * 100, systemDelta.n>>
            ELSE Rat(0, 1)

cpuPercentOver(v) ==
    LET cpuDelta == Sub64(v.cpu, v.preCpu)
        systemDelta == Sub64(v.sys, v.preSys)
    IN  IF Positive(systemDelta) /\ Positive(cpuDelta)
            THEN <<cpuDelta.over * v.ncpu * 100, systemDelta.over>>
            ELSE <<0, 0>>

NoUsage ==
    [has |-> FALSE, v |-> BusySample, cpuPercent |-> Rat(0, 1), over |-> <<0, 0>>]

\* The stats of a container are decoded and its CPU percent is computed.
DockerStats(v) ==
    usage' = [has |-> TRUE, v |-> v, cpuPercent |-> cpuPercent(v),
              over |-> cpuPercentOver(v)]

\* ------------------------------------------------------- the log files
\* A log file is "absent", "empty" or holds "lines"; piped: the session of
\* the name has the pipe-pane command that appends to it.
NoLog == [file |-> "absent", piped |-> FALSE]

\* os.OpenFile(outputFile, os.O_CREATE|os.O_RDWR|os.O_TRUNC, 0644)
OpenFile(log) == [log EXCEPT !.file = "empty"]

\* What StartProcess and StartDockerProcess, called for a name, do to its log
\* file: nothing when they return at the duplicate-name guard; otherwise they
\* open it, unless the setup failed before the open (the directories, the
\* open itself) rather than after it (tmux, the home directory).  A start
\* that made a session has piped its pane unless it failed before.
OpenLog(n) ==
    IF lastErr' = ErrAlreadyRunning
        THEN UNCHANGED logs
    ELSE IF lastErr' = ErrSetup
        THEN \E opened \in BOOLEAN :
                logs' = IF opened THEN [logs EXCEPT ![n] = OpenFile(@)] ELSE logs
    ELSE IF lastErr' = ErrCreate \/ lastOp' = "startDocker"
        THEN logs' = [logs EXCEPT ![n] = OpenFile(@)]
    ELSE logs' = [logs EXCEPT ![n] =
                    [OpenFile(@) EXCEPT !.piped = lastErr' \in {"ok", ErrPanePid}]]

\* The pane prints a line, and the pipe-pane command appends it to the file
\* (echo "$line" >> file).
PaneOutput(n) ==
    /\ sessions[n] # 0
    /\ logs[n].piped
    /\ logs' = [logs EXCEPT ![n].file = "lines"]
    /\ UNCHANGED mgrVars

\* ------------------------------------------------------- specification
\* NewStore writes "{}" when the file is missing; GetManager makes the map.
MgrInit ==
    /\ store = [n \in Names |-> NoRec]
    /\ processes = [n \in Names |-> NoProc]
    /\ sessions = [n \in Names |-> 0]
    /\ cmd = [n \in Names |-> "none"]
    /\ alive = {}
    /\ lastOp = "env"
    /\ lastName = ""
    /\ lastErr = ""
    /\ lastStatus = ""
    /\ lastList = NoList
    /\ lastPruned = {}
    /\ acted = FALSE
    /\ ioFault = FALSE
    /\ startHist = [n \in Names |-> "none"]

SaveInit ==
    /\ files = [f \in {path, "processes.json.tmp"} |->
                    IF f = path THEN File(Marshal(NoTable)) ELSE NoFile]
    /\ wpc = "idle"
    /\ wdata = Marshal(NoTable)
    /\ prevTbl = NoTable

ConcInit ==
    /\ thr = [t \in Threads |-> IdleThr]
    /\ mu = "free"

RaceInit ==
    /\ inv = [i \in Invocations |-> IdleInv]
    /\ server = {}

\* A host with a Docker daemon that holds nothing yet.
SvcInit ==
    /\ runtime = [containers |-> [c \in ContainerNames |-> NoContainer],
                  volumes |-> {}, images |-> FALSE, bound |-> {}]
    /\ svc = NoSvc

\* ------------------------------------------- the two mutexes (m.mu, s.mu)
\* The goroutines that call Manager methods in one process.
Goroutines == {"g1", "g2"}

\* The most handles StopAll copies, and the most records the store lists.
MaxHandles == 1

Mutexes == {"m", "s"}

\* A lock call: the mutex (m = Manager.mu, s = Store.mu) and the method.
LockCall(x, f) == [mutex |-> x, call |-> f]

Acquires == {"Lock", "RLock"}

\* Store methods: the deferred unlock runs when the method returns, and no
\* store method calls another method that locks.
GetProcessLocks == <<LockCall("s", "RLock"), LockCall("s", "RUnlock")>>
SaveProcessLocks == <<LockCall("s", "Lock"), LockCall("s", "Unlock")>>
RemoveProcessLocks == <<LockCall("s", "Lock"), LockCall("s", "Unlock")>>
StoreListLocks == <<LockCall("s", "RLock"), LockCall("s", "RUnlock")>>

\* m.mu.RLock(); process, exists := m.processes[name]; m.mu.RUnlock()
MapRead == <<LockCall("m", "RLock"), LockCall("m", "RUnlock")>>

\* m.mu.Lock(); m.processes[name] = process (or delete); m.mu.Unlock()
MapWrite == <<LockCall("m", "Lock"), LockCall("m", "Unlock")>>

\* findProcess returning a handle: found in the map, or rebuilt from the
\* record and put into the map.
findProcessFound == {MapRead, MapRead \o GetProcessLocks \o MapWrite}

\* findProcess returning an error: no record or no session, or a dead pid
\* whose record it removes.
findProcessFailed ==
    {MapRead \o GetProcessLocks,
     MapRead \o GetProcessLocks \o RemoveProcessLocks}

\* StartProcess and StartDockerProcess hold m.mu from the first line to the
\* return; either they return early or they save the record on the way.
StartLocks ==
    {<<LockCall("m", "Lock"), LockCall("m", "Unlock")>>,
     <<LockCall("m", "Lock")>> \o SaveProcessLocks \o <<LockCall("m", "Unlock")>>}

StopProcessLocks ==
    findProcessFailed
      \cup {f \o RemoveProcessLocks \o MapWrite : f \in findProcessFound}

\* updateResourceUsage returns early or ends in store.SaveProcess.
ListEntryLocks ==
    findProcessFailed
      \cup {f \o u : f \in findProcessFound, u \in {<< >>, SaveProcessLocks}}

\* The lock calls of a loop of k rounds, each round one of the paths P.
RECURSIVE Rounds(_, _)
Rounds(P, k) ==
    IF k = 0 THEN {<< >>}
    ELSE {p \o q : p \in P, q \in Rounds(P, k - 1)}

\* StopAll keeping the read lock while it stops the processes.
StopAllLocksHolding ==
    {<<LockCall("m", "RLock")>> \o b \o <<LockCall("m", "RUnlock")>> :
        b \in UNION {Rounds(StopProcessLocks, k) : k \in 0..MaxHandles}}

\* StopAll copies the handles under the read lock, releases it, and then
\* calls StopProcess for each copy.
StopAllLocks ==
    {MapRead \o b :
        b \in UNION {Rounds(StopProcessLocks, k) : k \in 0..MaxHandles}}

ListProcessesLocks ==
    {StoreListLocks \o b :
        b \in UNION {Rounds(ListEntryLocks, k) : k \in 0..MaxHandles}}

\* The lock calls an operation of the Manager makes, in order, per path.
LocksOf(op) ==
    CASE op = "start" -> StartLocks
      [] op = "track-container" -> StartLocks
      [] op = "stop" -> StopProcessLocks
      [] op = "status" -> findProcessFound \cup findProcessFailed
      [] op = "list" -> ListProcessesLocks
      [] op = "stop-all" -> StopAllLocks

Operations == {"start", "track-container", "stop", "status", "list", "stop-all"}

\* op: the method a goroutine is in; todo: the lock calls still ahead of it;
\* held: the locks it holds; asked: the mutex whose Lock() it is inside.
IdleLocks == [op |-> "idle", todo |-> << >>, held |-> {}, asked |-> "none"]

Holds(g, x) == \E h \in lk[g].held : h.mutex = x

\* sync.RWMutex: Lock waits until nobody holds the mutex; RLock waits while
\* a writer holds it or is inside Lock().
CanAcquire(g, c) ==
    IF c.call = "Lock"
    THEN /\ lk[g].asked = c.mutex
         /\ \A o \in Goroutines : ~ Holds(o, c.mutex)
    ELSE /\ \A o \in Goroutines : LockCall(c.mutex, "Lock") \notin lk[o].held
         /\ \A o \in Goroutines \ {g} : lk[o].asked # c.mutex

\* A goroutine in an operation that can take its next step.
CanStep(g) ==
    /\ lk[g].todo # << >>
    /\ LET c == Head(lk[g].todo) IN
         \/ c.call \notin Acquires
         \/ c.call = "Lock" /\ lk[g].asked = "none"
         \/ CanAcquire(g, c)

Advance(l) ==
    [l EXCEPT !.todo = Tail(@),
              !.op = IF Tail(l.todo) = << >> THEN "idle" ELSE @]

\* A goroutine calls a method of the Manager.
LockBegin(g) ==
    /\ lk[g].op = "idle"
    /\ \E op \in Operations : \E p \in LocksOf(op) :
         lk' = [lk EXCEPT ![g] = [op |-> op, todo |-> p, held |-> {},
                                  asked |-> "none"]]

\* Lock() announces the writer before it waits for the readers to leave.
LockRequest(g) ==
    /\ lk[g].todo # << >>
    /\ Head(lk[g].todo).call = "Lock"
    /\ lk[g].asked = "none"
    /\ lk' = [lk EXCEPT ![g].asked = Head(lk[g].todo).mutex]

LockAcquire(g) ==
    /\ lk[g].todo # << >>
    /\ LET c == Head(lk[g].todo) IN
         /\ c.call \in Acquires
         /\ CanAcquire(g, c)
         /\ lk' = [lk EXCEPT ![g] =
                     [Advance(lk[g]) EXCEPT !.held = @ \cup {c},
                                            !.asked = "none"]]

LockRelease(g) ==
    /\ lk[g].todo # << >>
    /\ LET c == Head(lk[g].todo) IN
         /\ c.call \notin Acquires
         /\ lk' = [lk EXCEPT ![g] =
                     [Advance(lk[g]) EXCEPT !.held = @ \
                         {LockCall(c.mutex,
                                   IF c.call = "Unlock" THEN "Lock" ELSE "RLock")}]]

LockInit == lk = [g \in Goroutines |-> IdleLocks]

\* ------------------------------------------- the keys sent to the session
\* The most words of a Procfile command.
MaxWords == 3

\* The words of Procfile commands; a command is its words, one space apart.
ProcWords == {"echo", "npm", "dev", "Enter"}

ProcCommands == UNION {[1..k -> ProcWords] : k \in 1..MaxWords}

NpmCommands == {"yarn", "npm", "npx"}

\* up.go: an npm-type command keeps the rest of the line as one argument,
\* any other command is split into its fields.
ParseProcCommand(w) ==
    IF Len(w) > 1 /\ w[1] \in NpmCommands
        THEN [command |-> w[1], args |-> <<Tail(w)>>]
        ELSE [command |-> w[1], args |-> [i \in 1..(Len(w) - 1) |-> <<w[i + 1]>>]]

\* The argument lists of the tmux send-keys calls of StartProcess, in order;
\* every argument is a text, the sequence of its words.
SendCalls(command, args) ==
    IF command \in NpmCommands
        THEN << << <<command>> \o (IF Len(args) > 0 THEN args[1] ELSE << >>) >>,
                << <<"Enter">> >> >>
        ELSE << << <<command>>, <<"Space">> >> >>
               \o [i \in 1..Len(args) |-> <<args[i], <<"Space">>>>]
               \o << << <<"Enter">> >> >>

\* The names send-keys looks up as keys, and what the pane receives for them.
KeyNames == {"Enter", "Space"}

KeyStroke(k) == IF k = "Enter" THEN "<CR>" ELSE " "

\* The words of a text as they are typed: one space between two words.
RECURSIVE Spaced(_)
Spaced(t) ==
    IF Len(t) <= 1 THEN t ELSE <<t[1], " ">> \o Spaced(Tail(t))

\* tmux send-keys without -l: an argument that is the name of a key presses
\* that key, any other argument is typed as its characters.
SendKeysArg(t) ==
    IF Len(t) = 1 /\ t[1] \in KeyNames THEN <<KeyStroke(t[1])>> ELSE Spaced(t)

RECURSIVE Flat(_)
Flat(ss) == IF ss = << >> THEN << >> ELSE Head(ss) \o Flat(Tail(ss))

\* What the pane receives from one send-keys call, and from the first k.
Received(call) == Flat([i \in 1..Len(call) |-> SendKeysArg(call[i])])

ReceivedFrom(calls, k) == Flat([i \in 1..k |-> Received(calls[i])])

ErrSendCommand == "failed to send command to tmux session"
ErrSendArgument == "failed to send argument to tmux session"
ErrSendEnter == "failed to send enter to tmux session"

\* The error of StartProcess when its k-th send-keys call fails.
SendError(calls, k) ==
    IF k = Len(calls) THEN ErrSendEnter
    ELSE IF k = 1 THEN ErrSendCommand
    ELSE ErrSendArgument

NoKeys == [line |-> << >>, command |-> "", args |-> << >>, typed |-> << >>,
           err |-> ""]

\* up starts the process of one Procfile line; failAt names the send-keys
\* call that fails, 0 for none.
SendKeys(w, failAt) ==
    LET p == ParseProcCommand(w)
        calls == SendCalls(p.command, p.args)
    IN  /\ failAt <= Len(calls)
        /\ keys' = [line |-> w, command |-> p.command, args |-> p.args,
                    typed |-> ReceivedFrom(calls, IF failAt = 0 THEN Len(calls)
                                                  ELSE failAt - 1),
                    err |-> IF failAt = 0 THEN "ok" ELSE SendError(calls, failAt)]

\* ------------------------------------------------------- the up command
\* The processes of the Procfile.
UpProcs == {"web", "worker"}

\* main: where the Run function of up stands; handler: the goroutine of
\* HandleSignals; wg: the counter of Manager.wg; running: the sessions that
\* still run their command; cache, recs: the names in m.processes and in the
\* store; caught: the cache StopAll copied; todo: the copies not stopped yet.
IdleUp ==
    [main |-> "starting", handler |-> "none", sig |-> "none", wg |-> 0,
     running |-> {}, cache |-> {}, recs |-> {}, caught |-> {}, todo |-> {},
     services |-> "running"]

\* StartProcess in the loop over the Procfile: a session, a record, a handle;
\* nothing adds to m.wg.
UpStartProcess(n) ==
    /\ up.main = "starting"
    /\ n \notin up.cache
    /\ up' = [up EXCEPT !.running = @ \cup {n}, !.cache = @ \cup {n},
                        !.recs = @ \cup {n}]

\* HandleSignals: signal.Notify and the goroutine that waits on the channel.
UpHandleSignals ==
    /\ up.main = "starting"
    /\ up' = [up EXCEPT !.main = "installed", !.handler = "waiting"]

\* WaitForAll: m.wg.Wait() returns when the counter is 0.
WaitForAllDone == up.wg = 0

UpWaitForAll ==
    /\ up.main = "installed"
    /\ WaitForAllDone
    /\ up' = [up EXCEPT !.main = "waited"]

\* svcManager.StopAll() after WaitForAll.
UpStopServices ==
    /\ up.main = "waited"
    /\ up' = [up EXCEPT !.main = "stopped-services", !.services = "stopped"]

\* Run returns and the program ends, and its goroutines with it.
UpExit ==
    /\ up.main = "stopped-services"
    /\ up' = [up EXCEPT !.main = "exited"]

\* SIGINT or SIGTERM reaches the program while it lives.
UpSignal ==
    /\ up.main \notin {"starting", "exited"}
    /\ up.sig = "none"
    /\ up' = [up EXCEPT !.sig = "pending"]

\* <-sigChan, and the head of StopAll: the handles are copied.
UpHandlerTake ==
    /\ up.main # "exited"
    /\ up.handler = "waiting"
    /\ up.sig = "pending"
    /\ up' = [up EXCEPT !.sig = "taken", !.handler = "stopping",
                        !.caught = up.cache, !.todo = up.cache]

\* StopProcess of one copy: kill-session, RemoveProcess (its error is only
\* logged), delete from the map.
UpHandlerStop(n, rmOk) ==
    /\ up.main # "exited"
    /\ up.handler = "stopping"
    /\ n \in up.todo
    /\ up' = [up EXCEPT !.todo = @ \ {n}, !.running = @ \ {n},
                        !.recs = IF rmOk THEN @ \ {n} ELSE @,
                        !.cache = @ \ {n}]

\* The end of StopAll: m.wg.Wait(), and the goroutine returns.
UpHandlerDone ==
    /\ up.main # "exited"
    /\ up.handler = "stopping"
    /\ up.todo = {}
    /\ up.wg = 0
    /\ up' = [up EXCEPT !.handler = "done"]

\* The command of a session ends by itself.
UpCommandExit(n) ==
    /\ n \in up.running
    /\ up' = [up EXCEPT !.running = @ \ {n}]

\* ------------------------------------- the store's methods side by side
\* The methods of the Store and the lock each of them takes with s.mu.
StoreMethods == {"SaveProcess", "RemoveProcess", "GetProcess", "ListProcesses"}

StoreLockMode(f) ==
    IF f \in {"SaveProcess", "RemoveProcess"} THEN "Lock" ELSE "RLock"

\* The methods that end in saveProcesses: ListProcesses saves the pruned
\* table whether or not it pruned anything.
Rewrites(f) == f \in {"SaveProcess", "RemoveProcess", "ListProcesses"}

\* at: where each goroutine stands inside its method (out, locked, loaded,
\* written, renamed, failed); tmp: the goroutine whose data the temporary
\* file holds, "" when there is none; file: the goroutine whose data the
\* store file holds, "" for the file as it was.
IdleStore ==
    [f |-> [g \in Goroutines |-> ""], at |-> [g \in Goroutines |-> "out"],
     tmp |-> "", file |-> ""]

InStore(g) == rw.at[g] # "out"

\* s.mu.Lock() / s.mu.RLock() at the head of the method.
StoreEnter(g, f) ==
    /\ rw.at[g] = "out"
    /\ IF StoreLockMode(f) = "Lock"
         THEN \A o \in Goroutines : ~ InStore(o)
         ELSE \A o \in Goroutines : InStore(o) => StoreLockMode(rw.f[o]) = "RLock"
    /\ rw' = [rw EXCEPT !.f[g] = f, !.at[g] = "locked"]

\* loadProcesses: os.ReadFile and json.Unmarshal.
StoreLoad(g) ==
    /\ rw.at[g] = "locked"
    /\ rw' = [rw EXCEPT !.at[g] = "loaded"]

\* saveProcesses, os.WriteFile(tmpPath, ...).
StoreWriteTmp(g) ==
    /\ rw.at[g] = "loaded"
    /\ Rewrites(rw.f[g])
    /\ rw' = [rw EXCEPT !.at[g] = "written", !.tmp = g]

\* saveProcesses, os.Rename(tmpPath, s.path); it fails when the temporary
\* file is gone, and the callers go on.
StoreRename(g) ==
    /\ rw.at[g] = "written"
    /\ rw' = IF rw.tmp = ""
                THEN [rw EXCEPT !.at[g] = "failed"]
                ELSE [rw EXCEPT !.at[g] = "renamed", !.tmp = "", !.file = rw.tmp]

\* The deferred Unlock / RUnlock.
StoreLeave(g) ==
    /\ \/ rw.at[g] \in {"renamed", "failed"}
       \/ rw.at[g] = "loaded" /\ ~ Rewrites(rw.f[g])
    /\ rw' = [rw EXCEPT !.f[g] = "", !.at[g] = "out"]

\* ---------------------------------------------- the dashboard's log view
\* The most tailing goroutines started, and the most lines one read of a log
\* file puts into a scanner's buffer.
MaxReaders == 3
MaxLines == 2

LogProcs == {"api", "worker"}

\* current: the process whose log the view shows ("" in the details view);
\* readers: the goroutines started by startLogReader, each with its process,
\* whether its file has been closed, the lines in its scanner's buffer, and
\* whether it stands in `m.LogChan <- scanner.Text()`; got: the process of
\* the last line the subscriber received since the view was opened.
IdleView == [current |-> "", readers |-> << >>, got |-> ""]

\* The goroutines inside their loop: the loop of startLogReader has no exit.
Tailing == DOMAIN view.readers

\* startLogReader(processName): the file of the view before is closed, the
\* channel is kept, the buffer is emptied and a new goroutine is started.
startLogReader(p) ==
    /\ view.current = ""
    /\ Len(view.readers) < MaxReaders
    /\ view' = [current |-> p,
                readers |-> Append([i \in DOMAIN view.readers |->
                                       [view.readers[i] EXCEPT !.closed = TRUE]],
                                   [proc |-> p, closed |-> FALSE, buf |-> 0,
                                    sending |-> FALSE]),
                got |-> ""]

\* The Logs key in the logs view: back to the details view; nothing is
\* stopped.
LeaveLogs ==
    /\ view.current # ""
    /\ view' = [view EXCEPT !.current = ""]

\* scanner.Scan() refills its buffer from the file; a closed file gives none.
ReaderFill(i, k) ==
    /\ ~ view.readers[i].closed
    /\ ~ view.readers[i].sending
    /\ view.readers[i].buf = 0
    /\ view' = [view EXCEPT !.readers[i].buf = k]

\* scanner.Scan() returns the next buffered line and the goroutine sends it.
ReaderSend(i) ==
    /\ ~ view.readers[i].sending
    /\ view.readers[i].buf > 0
    /\ view' = [view EXCEPT !.readers[i].buf = @ - 1, !.readers[i].sending = TRUE]

\* readLogsCmd: msg := <-m.LogChan, from whichever goroutine is sending.
readLogsCmd(i) ==
    /\ view.readers[i].sending
    /\ view' = [view EXCEPT !.readers[i].sending = FALSE,
                            !.got = IF view.current = "" THEN @
                                    ELSE view.readers[i].proc]

Init == MgrInit /\ SaveInit /\ ConcInit /\ RaceInit /\ sop = NoCall /\ SvcInit
          /\ hw = IdleWait
          /\ usage = NoUsage
          /\ logs = [n \in Names |-> NoLog]
          /\ LockInit
          /\ keys = NoKeys
          /\ up = IdleUp
          /\ rw = IdleStore
          /\ stopped = {}
          /\ view = IdleView

\* The Manager and its environment; every method is one step.
Next ==
    \/ \E n \in Names : StartProcess(n, BOOLEAN) /\ UNCHANGED mgrRest
    \/ \E n \in Names : StartDockerProcess(n, BOOLEAN) /\ UNCHANGED mgrRest
    \/ \E n \in Names : StopProcess(n, BOOLEAN) /\ UNCHANGED mgrRest
    \/ \E n \in Names : GetProcessStatus(n, BOOLEAN) /\ UNCHANGED mgrRest
    \/ ListProcesses(BOOLEAN) /\ UNCHANGED mgrRest
    \/ \E p \in PIDs : Die(p) /\ UNCHANGED mgrRest
    \/ \E p \in PIDs : Spawn(p) /\ UNCHANGED mgrRest
    \/ \E n \in Names : CommandExit(n) /\ UNCHANGED mgrRest
    \/ NewInvocation /\ UNCHANGED mgrRest

Spec == Init /\ [][Next]_vars

\* The same, on a store file that can always be written.
NextReliable ==
    \/ \E n \in Names : StartProcess(n, {TRUE}) /\ UNCHANGED mgrRest
    \/ \E n \in Names : StartDockerProcess(n, {TRUE}) /\ UNCHANGED mgrRest
    \/ \E n \in Names : StopProcess(n, {TRUE}) /\ UNCHANGED mgrRest
    \/ \E n \in Names : GetProcessStatus(n, {TRUE}) /\ UNCHANGED mgrRest
    \/ ListProcesses({TRUE}) /\ UNCHANGED mgrRest
    \/ \E p \in PIDs : Die(p) /\ UNCHANGED mgrRest
    \/ \E p \in PIDs : Spawn(p) /\ UNCHANGED mgrRest
    \/ \E n \in Names : CommandExit(n) /\ UNCHANGED mgrRest
    \/ NewInvocation /\ UNCHANGED mgrRest

SpecReliable == Init /\ [][NextReliable]_vars

\* One writer of the store file, step by step, with errors and crashes.
NextSave ==
    \/ SaveBegin
    \/ WriteChunk
    \/ Rename
    \/ SaveError
    \/ Crash
    \/ SaveAgain

SpecSave == Init /\ [][NextSave]_vars

\* Two goroutines of one invocation, step by step, and the processes that die.
NextConc ==
    \/ \E t \in Threads, n \in Names : GoStartLock(t, n) /\ stopped' = stopped \ {n} /\ UNCHANGED concRest
    \/ \E t \in Threads : GoStartGuard(t) /\ UNCHANGED <<stopped, concRest>>
    \/ \E t \in Threads : GoStartCreate(t) /\ UNCHANGED <<stopped, concRest>>
    \/ \E t \in Threads : GoStartSave(t) /\ UNCHANGED <<stopped, concRest>>
    \/ \E t \in Threads, n \in Names : GoStopFind(t, n) /\ UNCHANGED <<stopped, concRest>>
    \/ \E t \in Threads : GoFindStore(t) /\ UNCHANGED <<stopped, concRest>>
    \/ \E t \in Threads : GoFindPane(t) /\ UNCHANGED <<stopped, concRest>>
    \/ \E t \in Threads : GoFindInsert(t) /\ UNCHANGED <<stopped, concRest>>
    \/ \E t \in Threads : GoStopKill(t) /\ UNCHANGED <<stopped, concRest>>
    \/ \E t \in Threads : GoStopRemove(t) /\ UNCHANGED <<stopped, concRest>>
    \/ \E t \in Threads : GoStopDelete(t) /\ stopped' = stopped \cup {thr[t].name} /\ UNCHANGED concRest
    \/ \E t \in Threads : GoListStore(t) /\ UNCHANGED <<stopped, concRest>>
    \/ \E t \in Threads : GoListIter(t) /\ UNCHANGED <<stopped, concRest>>
    \/ \E t \in Threads : GoListSample(t) /\ UNCHANGED <<stopped, concRest>>
    \/ GoNewInvocation /\ stopped' = {} /\ UNCHANGED concRest
    \/ \E p \in PIDs : Die(p) /\ UNCHANGED mgrRest

SpecConc == Init /\ [][NextConc]_vars

\* Two invocations, each calling StartProcess once, step by step.
NextRace ==
    \/ \E i \in Invocations, n \in Names : RaceGuard(i, n) /\ UNCHANGED raceRest
    \/ \E i \in Invocations : RaceCreate(i) /\ UNCHANGED raceRest
    \/ \E i \in Invocations : RaceSend(i) /\ UNCHANGED raceRest
    \/ \E i \in Invocations : RaceSave(i) /\ UNCHANGED raceRest

SpecRace == Init /\ [][NextRace]_vars

\* The Store's methods called one after the other, and the file's mishaps.
NextStore ==
    \/ \E n \in FileNames, info \in Infos : StoreSave(n, info) /\ UNCHANGED storeRest
    \/ \E n \in FileNames : StoreRemove(n) /\ UNCHANGED storeRest
    \/ \E n \in FileNames : StoreGet(n) /\ UNCHANGED storeRest
    \/ StoreList /\ UNCHANGED storeRest
    \/ CorruptFile /\ UNCHANGED storeRest
    \/ DeleteFile /\ UNCHANGED storeRest

SpecStore == Init /\ [][NextStore]_vars

\* The ServiceManager's methods called one after the other, on a host whose
\* ports come and go and whose containers can exit.
NextSvc ==
    \/ \E n \in Services, cfg \in Cfgs : StartService(n, cfg) /\ UNCHANGED svcRest
    \/ \E n \in Services : StopService(n) /\ UNCHANGED svcRest
    \/ \E n \in Services, rv \in BOOLEAN : RemoveService(n, rv) /\ UNCHANGED svcRest
    \/ CleanupVolumes /\ UNCHANGED svcRest
    \/ \E p \in ServicePorts : PortBind(p) /\ UNCHANGED svcRest
    \/ \E p \in ServicePorts : PortRelease(p) /\ UNCHANGED svcRest
    \/ \E c \in ContainerNames : ContainerExit(c) /\ UNCHANGED svcRest
    \/ \E v \in LeftOverVolumes : VolumeLeftOver(v) /\ UNCHANGED svcRest

SpecSvc == Init /\ [][NextSvc]_vars

\* One goroutine in waitForHealthy; every ContainerInspect returns.
NextHealth ==
    \/ \E sp \in StartPeriods : WaitBegin(sp) /\ UNCHANGED healthRest
    \/ WaitTest /\ UNCHANGED healthRest
    \/ WaitInspect /\ UNCHANGED healthRest
    \/ WaitSleep /\ UNCHANGED healthRest
    \/ WaitReturn /\ UNCHANGED healthRest

SpecHealth == Init /\ [][NextHealth]_vars /\ WF_vars(NextHealth)

\* One stats sample after the other.
NextUsage ==
    \E v \in Samples : DockerStats(v) /\ UNCHANGED usageRest

SpecUsage == Init /\ [][NextUsage]_vars

\* The Manager on a store file that can be written, with the log files.
NextLog ==
    \/ \E n \in Names : StartProcess(n, {TRUE}) /\ OpenLog(n) /\ UNCHANGED logRest
    \/ \E n \in Names : StartDockerProcess(n, {TRUE}) /\ OpenLog(n) /\ UNCHANGED logRest
    \/ \E n \in Names : StopProcess(n, {TRUE}) /\ UNCHANGED <<logs, logRest>>
    \/ \E n \in Names : GetProcessStatus(n, {TRUE}) /\ UNCHANGED <<logs, logRest>>
    \/ ListProcesses({TRUE}) /\ UNCHANGED <<logs, logRest>>
    \/ \E n \in Names : PaneOutput(n) /\ UNCHANGED logRest
    \/ \E p \in PIDs : Die(p) /\ UNCHANGED <<logs, logRest>>
    \/ \E n \in Names : CommandExit(n) /\ UNCHANGED <<logs, logRest>>
    \/ NewInvocation /\ UNCHANGED <<logs, logRest>>

SpecLog == Init /\ [][NextLog]_vars

\* Goroutines calling Manager methods side by side.
NextLock ==
    \/ \E g \in Goroutines : LockBegin(g) /\ UNCHANGED lockRest
    \/ \E g \in Goroutines : LockRequest(g) /\ UNCHANGED lockRest
    \/ \E g \in Goroutines : LockAcquire(g) /\ UNCHANGED lockRest
    \/ \E g \in Goroutines : LockRelease(g) /\ UNCHANGED lockRest

SpecLock == Init /\ [][NextLock]_vars

\* One service that is started, stopped and started again, beside another
\* process that takes and leaves the port.
NextRestart ==
    \/ \E cfg \in RestartCfgs : StartService("redis", cfg) /\ UNCHANGED svcRest
    \/ StopService("redis") /\ UNCHANGED svcRest
    \/ ContainerExit(ContainerName("redis")) /\ UNCHANGED svcRest
    \/ \E p \in ServicePorts : PortBind(p) /\ UNCHANGED svcRest
    \/ \E p \in ServicePorts : PortRelease(p) /\ UNCHANGED svcRest

SpecRestart == Init /\ [][NextRestart]_vars

\* One Procfile line after the other.
NextKeys ==
    \E w \in ProcCommands : \E failAt \in 0..(MaxWords + 1) :
        SendKeys(w, failAt) /\ UNCHANGED keysRest

SpecKeys == Init /\ [][NextKeys]_vars

\* The goroutines of up: main and the signal handler.
NextUpProgram ==
    \/ \E n \in UpProcs : UpStartProcess(n) /\ UNCHANGED upRest
    \/ UpHandleSignals /\ UNCHANGED upRest
    \/ UpWaitForAll /\ UNCHANGED upRest
    \/ UpStopServices /\ UNCHANGED upRest
    \/ UpExit /\ UNCHANGED upRest
    \/ UpHandlerTake /\ UNCHANGED upRest
    \/ \E n \in UpProcs : \E rmOk \in BOOLEAN : UpHandlerStop(n, rmOk) /\ UNCHANGED upRest
    \/ UpHandlerDone /\ UNCHANGED upRest

NextUp ==
    \/ NextUpProgram
    \/ UpSignal /\ UNCHANGED upRest
    \/ \E n \in UpProcs : UpCommandExit(n) /\ UNCHANGED upRest

\* Every goroutine that can run does run.
SpecUp == Init /\ [][NextUp]_vars /\ WF_vars(NextUpProgram)

\* The goroutines of one process in the methods of its Store.
NextRewrite ==
    \/ \E g \in Goroutines : \E f \in StoreMethods : StoreEnter(g, f) /\ UNCHANGED rwRest
    \/ \E g \in Goroutines : StoreLoad(g) /\ UNCHANGED rwRest
    \/ \E g \in Goroutines : StoreWriteTmp(g) /\ UNCHANGED rwRest
    \/ \E g \in Goroutines : StoreRename(g) /\ UNCHANGED rwRest
    \/ \E g \in Goroutines : StoreLeave(g) /\ UNCHANGED rwRest

SpecRewrite == Init /\ [][NextRewrite]_vars

\* The key presses in the dashboard and the steps of its goroutines.
NextView ==
    \/ \E p \in LogProcs : startLogReader(p) /\ UNCHANGED viewRest
    \/ LeaveLogs /\ UNCHANGED viewRest
    \/ \E i \in Tailing : \E k \in 1..MaxLines : ReaderFill(i, k) /\ UNCHANGED viewRest
    \/ \E i \in Tailing : ReaderSend(i) /\ UNCHANGED viewRest
    \/ \E i \in Tailing : readLogsCmd(i) /\ UNCHANGED viewRest

SpecView == Init /\ [][NextView]_vars

TypeOK ==
    /\ alive \subseteq PIDs
    /\ \A n \in Names : sessions[n] \in 0..MaxPid
    /\ \A n \in Names : sessions[n] # 0 => sessions[n] \in alive
    /\ \A n \in Names : cmd[n] \in {"none", "running", "exited"}
    /\ \A n \in Names : cmd[n] # "none" => sessions[n] # 0

\* ================================================================ claims
\* What the name of the last method was called with, in the state before it.
SaysRunning(n) ==
    \/ processes[n].has /\ processes[n].status = StatusRunning
    \/ store[n].has /\ store[n].status = StatusRunning

\* The session-backed process of a name is gone by every measure: no
\* session, and neither the stored pid nor the handle's pid answers a probe.
ProcessGone(n) ==
    /\ sessions[n] = 0
    /\ store[n].has => (store[n].kind # ProcessTypeDocker /\ ~Probe(store[n].pid, alive))
    /\ processes[n].has => (processes[n].kind # ProcessTypeDocker
                              /\ ~Probe(processes[n].pid, alive))

\* A store record of a live process whose session is present.
LiveRecord(n) ==
    /\ store[n].has
    /\ Probe(store[n].pid, alive)
    /\ sessions[n] # 0
    /\ processes[n].has => processes[n].tmux

\* Reconciliation of a name succeeds (spec 4.3, steps 1 to 5).
ReconcileOk(n) ==
    \/ processes[n].has
    \/ store[n].has /\ Probe(store[n].pid, alive) /\ sessions[n] # 0

IsStart(op) == op \in {"start", "startDocker"}

C2_ListPrunesDeadRecords ==
    [][(acted' /\ lastOp' = "list" /\ ~ioFault')
         => \A n \in Names :
              /\ (store[n].has /\ store[n].pid > 0 /\ ~Probe(store[n].pid, alive))
                    => (~store'[n].has /\ ~lastList'[n].has)
              /\ (store[n].has /\ store[n].pid > 0 /\ Probe(store[n].pid, alive))
                    => store'[n].has]_vars

C2_Witness ==
    /\ acted
    /\ lastOp = "list"
    /\ ~ioFault
    /\ lastPruned # {}
    /\ \A n \in lastPruned : ~store[n].has /\ ~lastList[n].has

\* C3: a status(name) that observes a name said to be running whose process
\* is gone does not report it running, and leaves neither a running handle
\* nor a running record, with or without a handle in the cache.
C3_DeadIsNeverReportedRunning ==
    [][(acted' /\ lastOp' = "status" /\ ~ioFault'
          /\ SaysRunning(lastName') /\ ProcessGone(lastName'))
         => /\ ~(lastErr' = "ok" /\ lastStatus' = StatusRunning)
            /\ ~(processes'[lastName'].has /\ processes'[lastName'].status = StatusRunning)
            /\ ~(store'[lastName'].has /\ store'[lastName'].status = StatusRunning)]_vars

\* C4: a list() of a live record with its session returns an entry for the
\* name; when the previous method was a list() too and no process was born
\* or died in between, the entry has the same pid and status and a
\* lastUpdated that is not older.
C4_ListIsIdempotent ==
    [][(acted' /\ lastOp' = "list")
         => \A n \in Names :
              LiveRecord(n) =>
                /\ lastList'[n].has
                /\ (lastOp = "list" /\ lastList[n].has) =>
                     /\ lastList'[n].pid = lastList[n].pid
                     /\ lastList'[n].status = lastList[n].status
                     /\ lastList'[n].lastUpdated >= lastList[n].lastUpdated]_vars

\* C5: at every point of a store write, also after an error or a crash of
\* the writer, the store file parses, and to the table it held before the
\* write or to the table being written.
C5_StoreFileAlwaysValid ==
    /\ files[path].exists
    /\ ValidJSON(files[path].data)
    /\ \/ Unmarshal(files[path].data) = prevTbl
       \/ files[path].data = wdata

C5_Witness ==
    /\ wpc = "crashed"
    /\ files["processes.json.tmp"].exists
    /\ Len(files["processes.json.tmp"].data) > 0
    /\ ~ValidJSON(files["processes.json.tmp"].data)
    /\ Unmarshal(files[path].data) = prevTbl
    /\ prevTbl # NoTable

\* C6: start returns success only with the running record of the pane's pid
\* in the store, stop returns success only with the record gone, and a
\* failed store write is not answered with success.
C6_SuccessMeansPersisted ==
    (acted /\ lastErr = "ok") =>
        /\ lastOp = "start" =>
              /\ ~ioFault
              /\ store[lastName].has
              /\ store[lastName].status = StatusRunning
              /\ store[lastName].pid = sessions[lastName]
        /\ lastOp = "stop" => (~ioFault /\ ~store[lastName].has)

\* C7: when reconciliation of the name succeeds and the store can be
\* written, stop(name) returns success, whether or not the session was
\* killed, and the name is then in neither the store nor the cache.
C7_StopSucceedsAndClears ==
    [][(acted' /\ lastOp' = "stop" /\ ~ioFault' /\ ReconcileOk(lastName'))
         => /\ lastErr' = "ok"
            /\ ~store'[lastName'].has
            /\ ~processes'[lastName'].has]_vars

\* stop returned success although the kill of the session failed
C7_Witness ==
    /\ acted
    /\ lastOp = "stop"
    /\ lastErr = "ok"
    /\ ~ioFault
    /\ sessions[lastName] # 0
    /\ ~store[lastName].has
    /\ ~processes[lastName].has

\* C8: a stop(name) of a name with a record in the store, whose store writes
\* succeed, leaves the store without a record for the name.
C8_StopAlwaysClearsRecord ==
    [][(acted' /\ lastOp' = "stop" /\ ~ioFault' /\ store[lastName'].has)
         => ~store'[lastName'].has]_vars

\* C9: a start that fails after it created the session leaves no session
\* and no cache entry behind.
C9_FailedStartLeavesNothing ==
    (acted /\ lastOp = "start" /\ lastErr \in {ErrSend, ErrPipe, ErrPanePid})
        => (sessions[lastName] = 0 /\ ~processes[lastName].has)

\* C10: a start of a name without a handle in the cache whose store record
\* has a live pid and whose session exists fails with AlreadyRunning.
C10_GuardConsultsStore ==
    [][(acted' /\ lastOp' = "start" /\ ~processes[lastName'].has
          /\ store[lastName'].has /\ Probe(store[lastName'].pid, alive)
          /\ sessions[lastName'] # 0)
         => lastErr' = ErrAlreadyRunning]_vars

\* C11: after a start of a name that failed at PID capture, a status of that
\* name does not report running and a list() does not contain the name.
C11_VisibleOnlyOnceRunning ==
    [][(acted' /\ lastOp = "start" /\ lastErr = ErrPanePid)
         => /\ (lastOp' = "status" /\ lastName' = lastName)
                 => ~(lastErr' = "ok" /\ lastStatus' = StatusRunning)
            /\ lastOp' = "list" => ~lastList'[lastName].has]_vars

\* C12: a list() that directly follows a successful start of a name contains
\* the name with status running; a list() called once the command of the
\* name has exited inside its session does not return the name as running.
C12_ExitedCommandIsEvicted ==
    [][(acted' /\ lastOp' = "list")
         => /\ (lastOp = "start" /\ lastErr = "ok")
                 => (lastList'[lastName].has /\ lastList'[lastName].status = StatusRunning)
            /\ \A n \in Names :
                 cmd[n] = "exited"
                   => ~(lastList'[n].has /\ lastList'[n].status = StatusRunning)]_vars

\* A container the tracker callback registered: its record is in the store.
Tracked(n) == store[n].has /\ store[n].kind = ProcessTypeDocker

\* C13: for a tracked container, list() returns the name, status(name)
\* succeeds, also in a later invocation, and neither of the two removes the
\* record from the store.  (The state of the container is an input of
\* list() that is read for a listed container only; the formula asks for
\* the name to be listed at all.)
C13_ContainerIsSupervised ==
    [][(acted' /\ lastOp' \in {"list", "status"})
         => \A n \in Names :
              Tracked(n) =>
                /\ lastOp' = "list" => lastList'[n].has
                /\ (lastOp' = "status" /\ lastName' = n) => lastErr' = "ok"
                /\ Tracked(n)']_vars

\* The goroutines that have taken the first step of a method and not yet
\* its last.
Running == {t \in Threads : thr[t].op # "idle"}

\* C14: at most one goroutine is between the first and the last step of a
\* start, stop or list.
C14_MethodsAreMutuallyExclusive == Cardinality(Running) <= 1

\* C15: of the start calls of two invocations for one name at most one
\* returns success, and the server never holds two sessions of one name.
C15_OneStartWins ==
    /\ Cardinality({i \in Invocations : inv[i].res = "ok"}) <= 1
    /\ \A x, y \in server : x.name = y.name => x = y

\* one call succeeded and the other, running at the same time, was refused
\* by the server
C15_Witness ==
    \E i, j \in Invocations :
        /\ inv[i].res = "ok"
        /\ inv[j].res = ErrCreate
        /\ inv[i].overlap /\ inv[j].overlap
        /\ inv[i].name = inv[j].name

\* The table a reader finds in the store file (a missing file is empty).
TableOf(fs) == IF fs[path].exists THEN Unmarshal(fs[path].data) ELSE NoTable

\* The store file can be loaded.
Loadable(fs) == fs[path].exists => ValidJSON(fs[path].data)

\* The call that has just returned met no I/O failure.
NoFault(c) == c.readOk /\ c.parsed /\ c.writeOk

\* C16: called without I/O failure, save sets the entry of its name and
\* leaves the others, get fails with NotFound exactly for an absent name and
\* changes nothing, remove deletes the entry of its name only and succeeds,
\* also for an absent name.
C16_StoreRefinesMap ==
    [][(sop'.op # "none" /\ NoFault(sop'))
         => LET old == TableOf(files)
                new == TableOf(files')
                n == sop'.name
            IN  /\ Loadable(files')
                /\ sop'.op = "save" =>
                      (sop'.err = "ok" /\ new = [old EXCEPT ![n] = sop'.rec])
                /\ sop'.op = "get" =>
                      /\ new = old
                      /\ (sop'.err = ErrNotFound) <=> ~old[n].has
                      /\ old[n].has => (sop'.err = "ok" /\ sop'.rec = old[n])
                /\ sop'.op = "remove" =>
                      (sop'.err = "ok" /\ new = [old EXCEPT ![n] = NoRec])]_vars

\* a save has replaced one entry of a table with two entries
C16_Witness ==
    /\ sop.op = "save"
    /\ NoFault(sop)
    /\ sop.err = "ok"
    /\ \A n \in FileNames : TableOf(files)[n].has
    /\ \E n \in FileNames : TableOf(files)[n] # sop.rec

\* C17: a call that could not read, parse or write the store file returns
\* an error and leaves the store file as it was.
C17_IOFailureIsReturned ==
    [][(sop'.op # "none" /\ ~NoFault(sop'))
         => (sop'.err # "ok" /\ files'[path] = files[path])]_vars

\* C18: a container removed with removeVolumes = false and started again from
\* the same spec mounts the named volumes it mounted before, which exist all
\* along; and no start, stop, or remove with removeVolumes = false deletes a
\* named volume.
Reattached ==
    /\ svc.op = "start"
    /\ svc.removed.has
    /\ svc.cfg.volumes = svc.removed.keys
    /\ svc.cfg.port = svc.removed.port
    /\ runtime.containers[ContainerName(svc.name)].has

C18_VolumesSurviveRemoval ==
    [][/\ (svc'.op \in {"start", "stop"} \/ (svc'.op = "remove" /\ ~svc'.removeVolumes))
            => (runtime.volumes \cap NamedVolumes) \subseteq runtime'.volumes
       /\ Reattached'
            => /\ runtime'.containers[ContainerName(svc'.name)].mounts
                     = svc'.removed.mounts
               /\ svc'.removed.mounts \subseteq runtime.volumes]_vars

C18_Witness ==
    /\ Reattached
    /\ svc.err = "ok"
    /\ svc.removed.mounts # {}
    /\ runtime.containers[ContainerName(svc.name)].mounts = svc.removed.mounts

\* C19: a start of a name that has no container, on a port that is taken,
\* returns the port-in-use error without having attempted a pull, a creation
\* or a start, and leaves containers, volumes, images and ports as they were.
PortTaken(name, port) ==
    /\ ~runtime.containers[ContainerName(name)].has
    /\ port # 0
    /\ ~HostPortFree(runtime, port)

C19_PortInUseFailsFast ==
    [][(svc'.op = "start" /\ svc' # svc /\ PortTaken(svc'.name, svc'.cfg.port))
         => /\ svc'.err = ErrPortInUse
            /\ svc'.calls = <<>>
            /\ runtime' = runtime]_vars

C19_Witness ==
    /\ svc.op = "start"
    /\ svc.err = ErrPortInUse
    /\ svc.calls = <<>>
    /\ PortTaken(svc.name, svc.cfg.port)
    /\ svc.cfg.port \in runtime.bound

NeverHealthy == hw.seen \subseteq {"starting", "unhealthy"}

C21_HealthyStartSucceeds ==
    (hw.pc = "done" /\ hw.seen \subseteq {"healthy"}) => hw.res = "ok"

\* C22: when StartService has returned the health-check timeout, the
\* container it created exists and runs, and the last Docker calls it made
\* are the creation, the start and the polling.
C22_TimeoutLeavesContainerRunning ==
    (svc.op = "start" /\ svc.err = ErrHealthTimeout)
        => /\ runtime.containers[ContainerName(svc.name)].has
           /\ runtime.containers[ContainerName(svc.name)].running
           /\ Len(svc.calls) >= 3
           /\ SubSeq(svc.calls, Len(svc.calls) - 2, Len(svc.calls))
                 = <<"create", "start", "wait">>

C22_Witness ==
    /\ svc.op = "start"
    /\ svc.err = ErrHealthTimeout
    /\ svc.cfg.health
    /\ runtime.containers[ContainerName(svc.name)].running

\* C23: CleanupVolumes removes only volumes that carry the prefix and that no
\* container mounts; when it returns success it has removed every such volume
\* whose removal did not fail; and a removal that fails does not make it fail.
Orphans ==
    {v \in runtime.volumes :
        v \in NamedVolumes \cup LeftOverVolumes /\ v \notin InUse(runtime)}

C23_SweepRemovesOrphansOnly ==
    [][(svc'.op = "cleanup" /\ svc' # svc)
         => /\ (runtime.volumes \ runtime'.volumes) \subseteq Orphans
            /\ svc'.err = "ok" => (Orphans \ svc'.failed) \cap runtime'.volumes = {}
            /\ svc'.failed # {} => svc'.err = "ok"]_vars

\* A sweep that removed one orphan, could not remove another, and left a
\* volume without the prefix that no container mounts.
C23_Witness ==
    /\ svc.op = "cleanup"
    /\ svc.err = "ok"
    /\ svc.failed # {}
    /\ svc.failed \subseteq runtime.volumes
    /\ svc.swept # {}
    /\ svc.swept \cap runtime.volumes = {}
    /\ \E v \in runtime.volumes :
          v \notin NamedVolumes \cup LeftOverVolumes /\ v \notin InUse(runtime)

\* C24: the CPU percent is cpuDelta / systemDelta * numCPUs * 100 when both
\* deltas are positive, 0 when one of them is 0, and 80 for 200,000,000 ns of
\* 1,000,000,000 ns on 4 CPUs.
C24_CPUPercent ==
    usage.has =>
        LET cpuDelta == usage.v.cpu - usage.v.preCpu
            systemDelta == usage.v.sys - usage.v.preSys
            p == usage.cpuPercent
        IN  /\ (cpuDelta > 0 /\ systemDelta > 0 /\ usage.v \in SmallSamples)
                  => p[1] * systemDelta = p[2] * cpuDelta * usage.v.ncpu * 100
            /\ (cpuDelta = 0 \/ systemDelta = 0) => p = <<0, 1>>
            /\ usage.v = BusySample => p = <<80, 1>>

C24_Witness ==
    /\ usage.has
    /\ usage.v = BusySample
    /\ usage.cpuPercent = <<80, 1>>

\* C25: a log file that holds lines holds them after every step.
C25_LogIsAppendOnly ==
    [][\A n \in Names : logs[n].file = "lines" => logs'[n].file = "lines"]_vars

\* C26: a status or stop of a name without a handle, whose store writes
\* succeed: without a record it fails with NotFound and leaves store and cache
\* as they were; with a record whose pid fails the probe it fails with
\* NotRunning and the record is gone; with a live pid and no session it fails
\* for the missing session and leaves the store; and no handle is cached.
C26_FailedReconciliation ==
    [][(acted' /\ lastOp' \in {"status", "stop"} /\ ~ioFault'
          /\ ~processes[lastName'].has)
         => LET n == lastName' IN
            /\ ~store[n].has
                  => (lastErr' = ErrNotFound /\ store' = store /\ processes' = processes)
            /\ (store[n].has /\ ~Probe(store[n].pid, alive))
                  => (lastErr' = ErrNotRunning /\ ~store'[n].has /\ ~processes'[n].has)
            /\ (store[n].has /\ Probe(store[n].pid, alive) /\ sessions[n] = 0)
                  => (lastErr' = ErrNoSession /\ store' = store /\ ~processes'[n].has)]_vars

C26_Witness ==
    /\ acted
    /\ lastOp = "status"
    /\ lastErr = ErrNotRunning
    /\ ~ioFault
    /\ ~store[lastName].has
    /\ ~processes[lastName].has

\* C27: a status that succeeds for a name without a handle caches a handle
\* with the pid of the session's pane, the session, and the status and sample
\* time of the store record; one that finds a handle returns that handle as it
\* is, whatever the store and the sessions hold, and leaves the store alone.
C27_ReconciledHandle ==
    [][(acted' /\ lastOp' = "status")
         => LET n == lastName' IN
            /\ (~processes[n].has /\ lastErr' = "ok")
                  => /\ processes'[n].has
                     /\ processes'[n].pid = sessions[n]
                     /\ processes'[n].tmux
                     /\ processes'[n].status = store[n].status
                     /\ processes'[n].lastUpdated = store[n].lastUpdated
                     /\ lastStatus' = store[n].status
            /\ processes[n].has
                  => /\ lastErr' = "ok"
                     /\ processes'[n] = processes[n]
                     /\ lastStatus' = processes[n].status
                     /\ store' = store]_vars

\* A handle cached from a record whose pid is not the pane's.
C27_Witness ==
    /\ acted
    /\ lastOp = "status"
    /\ lastErr = "ok"
    /\ processes[lastName].has
    /\ store[lastName].has
    /\ processes[lastName].pid = sessions[lastName]
    /\ processes[lastName].pid # store[lastName].pid

\* C28: no interleaving of concurrent Manager operations deadlocks. A
\* goroutine that asks for the manager's lock holds no store lock, a
\* goroutine that asks for a lock does not hold that lock already, and
\* while some goroutine is inside an operation some goroutine can step.
C28_NoDeadlock ==
    /\ \A g \in Goroutines :
         lk[g].todo # << >> /\ Head(lk[g].todo).call \in Acquires =>
           /\ Head(lk[g].todo).mutex = "m" => ~ Holds(g, "s")
           /\ ~ Holds(g, Head(lk[g].todo).mutex)
    /\ (\E g \in Goroutines : lk[g].todo # << >>) =>
         \E g \in Goroutines : CanStep(g)

\* One goroutine is in a start, holding the manager's lock and the store's
\* lock, while the other one, in a stop, waits for the store's lock.
C28_Witness ==
    \E g, o \in Goroutines :
        /\ lk[g].op = "start"
        /\ lk[g].held = {LockCall("m", "Lock"), LockCall("s", "Lock")}
        /\ lk[o].op = "stop"
        /\ lk[o].todo # << >>
        /\ Head(lk[o].todo) = LockCall("s", "Lock")
        /\ lk[o].asked = "s"
        /\ ~ CanStep(o)

\* C29: a StartService for a name whose container exists stops the container
\* first if it runs, removes it before it creates the new one, and when it
\* returns nil the container of the name exists and runs.
C29_RestartStopsThenReplaces ==
    [][(svc'.op = "start" /\ svc' # svc /\ svc'.prev.has) =>
         /\ (svc'.prev.running /\ Len(svc'.calls) > 0) => svc'.calls[1] = "stop"
         /\ \A i \in 1..Len(svc'.calls) :
               svc'.calls[i] = "create" =>
                 \E j \in 1..(i - 1) : svc'.calls[j] = "remove"
         /\ svc'.err = "ok" =>
               /\ runtime'.containers[ContainerName(svc'.name)].has
               /\ runtime'.containers[ContainerName(svc'.name)].running]_vars

\* C30: after a start that sent its keys, the pane has received the command
\* and every argument in order, a space between them, and exactly one Enter,
\* at the end; for yarn, npm and npx the words after the command arrive as
\* they stand in the Procfile line.
C30_KeysAreTheCommandLine ==
    keys.err = "ok" =>
        /\ Len(SelectSeq(keys.typed, LAMBDA k : k = "<CR>")) = 1
        /\ keys.typed[Len(keys.typed)] = "<CR>"
        /\ SelectSeq(keys.typed, LAMBDA k : k \notin {" ", "<CR>"}) = keys.line
        /\ keys.command \in NpmCommands =>
             keys.typed = Spaced(keys.line) \o <<"<CR>">>

\* C31: WaitForAll does not return while a process started by this manager
\* still runs unstopped, so the services are stopped only after the
\* processes have completed or the shutdown signal has been handled.
C31_WaitForAllWaits ==
    up.main \in {"waited", "stopped-services", "exited"} =>
        \/ up.running \cap up.cache = {}
        \/ up.handler = "done"

\* C32: once HandleSignals is installed, a signal leads to a state in which
\* every process of the cache has no session, no record and no handle.
C32_SignalStopsEverything ==
    (up.sig = "pending") ~>
        /\ up.sig = "taken"
        /\ \A n \in up.caught :
              n \notin up.running \cup up.recs \cup up.cache

\* C33: a goroutine that rewrites the store file (it has loaded the table and
\* has not yet renamed the temporary file) is the only goroutine inside a
\* method of the store.
C33_RewritesDoNotOverlap ==
    \A g \in Goroutines :
        (Rewrites(rw.f[g]) /\ rw.at[g] \in {"loaded", "written"}) =>
            \A o \in Goroutines \ {g} : ~ InStore(o)

\* C34: a name whose stop has returned nil has no record in the store and no
\* handle in the cache until the next start of the name, whatever list or
\* stop runs beside it.
C34_StoppedStaysStopped ==
    \A n \in stopped : ~ store[n].has /\ ~ processes[n].has

\* C35: a ListProcesses leaves, in every record it keeps, the pid, the
\* status, the working directory and the kind as they were.
C35_ListKeepsIdentity ==
    [][lastOp' = "list" /\ acted' =>
         \A n \in Names :
             (store[n].has /\ store'[n].has) =>
                 /\ store'[n].pid = store[n].pid
                 /\ store'[n].status = store[n].status
                 /\ store'[n].workDir = store[n].workDir
                 /\ store'[n].kind = store[n].kind]_vars

\* C36: the containers of two different services never mount the same named
\* volume.
C36_VolumesAreNotShared ==
    \A a, b \in ContainerNames :
        (a # b /\ runtime.containers[a].has /\ runtime.containers[b].has) =>
            runtime.containers[a].mounts \cap runtime.containers[b].mounts = {}

\* C37: a StartService that fails before it calls ContainerCreate leaves a
\* container of the name that was running still running.
C37_FailedStartKeepsRunning ==
    [][(/\ svc'.op = "start" /\ svc' # svc
        /\ svc'.err # "ok"
        /\ \A i \in 1..Len(svc'.calls) : svc'.calls[i] # "create"
        /\ svc'.prev.running)
         => runtime'.containers[ContainerName(svc'.name)].running]_vars

\* C38: when a counter of the current sample is lower than that of the
\* previous one, the computed CPU percent is 0.
C38_CounterResetGivesZero ==
    (usage.has /\ (usage.v.cpu < usage.v.preCpu \/ usage.v.sys < usage.v.preSys)) =>
        /\ usage.cpuPercent = <<0, 1>>
        /\ usage.over = <<0, 0>>

\* C39: at most one tailing loop runs at any time, and the subscriber of the
\* view of a process receives no line of another process's log.
C39_OneTailingLoop ==
    /\ Cardinality(Tailing) <= 1
    /\ view.got \in {"", view.current}

====
